---- MODULE Spec2Model ----
(***************************************************************************)
(* Dots & Boxes: the shared rules engine (shared/src/gameLogic.ts).        *)
(*                                                                         *)
(* The model holds one GameState value, as the session layer does, and     *)
(* replaces it by the value applyMove returns; a null return leaves it as  *)
(* it was.  Arrays whose order the rules never read (lines, lineSet) are   *)
(* bags: an array up to permutation, duplicates kept.  Keys are the        *)
(* strings the code builds.  A Line is a 4-tuple of integers, so the       *)
(* Array.isArray / length / Number.isInteger tests of isValidLine hold of  *)
(* every input the model draws, except where isValidLineArray draws the    *)
(* malformed ones.  `fn` is the record of a function of the code applied   *)
(* on its own (not by a move): its name, its arguments and what it         *)
(* returned.                                                               *)
(*                                                                         *)
(* The server (backend/src) is the second holder of a GameState: `room` is *)
(* one room of the RoomManager, `sockets` the connections, `buckets` the   *)
(* rate limiter's socketBuckets, `now` what Date.now() returns, in         *)
(* milliseconds, `lastCheck` the time of the last run of the reconnection  *)
(* timeout checker, and `emitted` what the last handler emitted.           *)
(***************************************************************************)
EXTENDS Bags, FiniteSets, Integers, Sequences, TLC

VARIABLES state, call, nAccepted, fn, room, sockets, buckets, now, lastCheck, emitted

vars == <<state, call, nAccepted, fn, room, sockets, buckets, now, lastCheck, emitted>>

gameVars == <<state, call, nAccepted, fn>>

serverVars == <<room, sockets, buckets, now, lastCheck, emitted>>

\* ---- constants of shared/src/constants.ts --------------------------------

MIN_GRID_SIZE == 3

MIN_PLAYERS == 2

MAX_PLAYERS == 4

MAX_GRID_SIZE == 10

DEFAULT_GRID_SIZE == 4

DEFAULT_PLAYERS == 2

\* `aiPlayerIndex: 1` where GameBoard calls useAI
AI_PLAYER_INDEX == 1

\* hardAI searches to the end while at most this many lines are available
FULL_SEARCH_LINES == 12

\* and to this depth otherwise
LIMITED_DEPTH == 6

\* ---- constants of the server ------------------------------------------------

RECONNECT_TIMEOUT_SECONDS == 30

RATE_LIMIT_MOVES_PER_SECOND == 5

RATE_LIMIT_ROOMS_PER_MINUTE == 2

\* `windowMs = 1000` for makeMove in checkRateLimit
MOVE_WINDOW_MS == 1000

\* `windowMs = 60000` for createRoom in checkRateLimit
ROOM_WINDOW_MS == 60000

\* the period of the interval that runs checkReconnectionTimeouts
RECONNECT_CHECK_MS == 5000

\* `RECONNECT_TIMEOUT_SECONDS * 1000` in checkReconnectionTimeouts
MS_PER_SECOND == 1000

\* `ROOM_TTL_MS = 60 * 60 * 1000` and `ROOM_CLEANUP_INTERVAL_MS = 60 * 1000`
ROOM_TTL_MS == 3600000

ROOM_CLEANUP_INTERVAL_MS == 60000

\* `5 * 60 * 1000` of cleanupExpiredRooms
FINISHED_ROOM_AGE_MS == 300000

\* ---- bounds of the model -------------------------------------------------

\* largest player count a game is created with (MIN_PLAYERS..MaxPlayerCount)
MaxPlayerCount == 3

\* how far outside [0, gridSize) the first endpoint of a submitted line may lie
Overshoot == 1

\* how far (in grid steps, both axes added) the second endpoint of a submitted
\* line may lie from the first
Reach == 2

\* the coordinates of an edge given to normalizeLine or lineToKey on its own
\* lie in -KeySpan..KeySpan or are MAX_GRID_SIZE (two digits)
KeySpan == 1

\* hardAI is applied in the states that have at most this many available lines
MaxSearchLines == 3

\* hardAI on the AI's turn is applied in the states that have at most this
\* many available lines
MaxPrunedLines == 4

\* the number of connections the server sees
MaxSockets == 3

\* checkRateLimit on its own is called until it has admitted this many events
MaxCalls == 7

\* at the start of a window, at its end, and up to this many milliseconds
\* before its end
Margin == 1

\* the server's clock advances this many times by the window of the move limit
MaxTicks == 1

\* the largest player count a room is created with (MIN_PLAYERS..MaxRoomPlayers)
MaxRoomPlayers == 2

\* the reconnection timeout checker is followed for this many runs
MaxChecks == 7

\* the clients send this many events that the server rejects
MaxRejected == 1

\* the rooms the RoomManager holds at a time, where it holds several
MaxRoomsHeld == 2

\* the periods of the cleanup timer the clock runs through
MaxMinutes == 61

\* the rooms created one after the other
MaxRooms == 1

\* the callbacks of one render of GameBoard that run before the next render
MaxBatched == 2

\* the clicks on the board of useGameState are followed while the render shows
\* fewer than this many lines drawn
MaxRenderedLines == 3

\* ---- values --------------------------------------------------------------

\* `null` where the code has PlayerIndex | null
Null == -1

\* `null` where the code has GameState | null
NullState == [isNull |-> TRUE]

\* `null` where the code has Line | null
NoLine == <<>>

\* no function has been applied on its own
NoFn == [op |-> "none"]

\* every game of the model is played on the smallest grid
GridSize == MIN_GRID_SIZE

PlayerCounts == {n \in MIN_PLAYERS..MAX_PLAYERS : n <= MaxPlayerCount}

Abs(n) == IF n < 0 THEN 0 - n ELSE n

Min(a, b) == IF a < b THEN a ELSE b

Coords == (0 - Overshoot)..(GridSize - 1 + Overshoot)

Deltas == {d \in ((0 - Reach)..Reach) \X ((0 - Reach)..Reach) : Abs(d[1]) + Abs(d[2]) <= Reach}

\* the 4-tuples a caller may submit as a Line: zero-length, unit, diagonal and
\* longer segments, in both directions, inside and outside the grid
LineInputs ==
  {<<p[1], p[2], p[1] + d[1], p[2] + d[2]>> : p \in Coords \X Coords, d \in Deltas}

\* the player indices a caller may submit (one past the last included)
PlayerInputs(maxPlayers) == 0..maxPlayers

\* ---- Line Normalization --------------------------------------------------

\* the line as submitted, endpoints not reordered
normalizeLine_Keep(line) == line

\* the endpoints are ordered by row only, the column is not compared
normalizeLine_RowOnly(line) ==
  LET x1 == line[1]
      y1 == line[2]
      x2 == line[3]
      y2 == line[4]
  IN IF y1 < y2
       THEN <<x1, y1, x2, y2>>
       ELSE <<x2, y2, x1, y1>>

normalizeLine(line) ==
  LET x1 == line[1]
      y1 == line[2]
      x2 == line[3]
      y2 == line[4]
  IN IF y1 < y2 \/ (y1 = y2 /\ x1 < x2)
       THEN <<x1, y1, x2, y2>>
       ELSE <<x2, y2, x1, y1>>

\* the key is built from the line as given, not normalized
lineToKey_AsGiven(line) ==
  LET n == line
  IN ToString(n[1]) \o "," \o ToString(n[2]) \o "-" \o ToString(n[3]) \o "," \o ToString(n[4])

lineToKey(line) ==
  LET n == normalizeLine(line)
  IN ToString(n[1]) \o "," \o ToString(n[2]) \o "-" \o ToString(n[3]) \o "," \o ToString(n[4])

\* the template literal `${x},${y}` of findCompletedBoxes
boxToKey(x, y) == ToString(x) \o "," \o ToString(y)

\* ---- Validation ----------------------------------------------------------

\* the upper bound is tested with > where the code has >=
isValidLine_UpperInclusive(line, gridSize) ==
  LET x1 == line[1]
      y1 == line[2]
      x2 == line[3]
      y2 == line[4]
      dx == Abs(x2 - x1)
      dy == Abs(y2 - y1)
  IN IF x1 < 0 \/ x1 > gridSize \/ y1 < 0 \/ y1 > gridSize THEN FALSE
     ELSE IF x2 < 0 \/ x2 > gridSize \/ y2 < 0 \/ y2 > gridSize THEN FALSE
     ELSE IF ~((dx = 1 /\ dy = 0) \/ (dx = 0 /\ dy = 1)) THEN FALSE
     ELSE TRUE

\* the distance test lets a step of one on both axes through
isValidLine_Diagonal(line, gridSize) ==
  LET x1 == line[1]
      y1 == line[2]
      x2 == line[3]
      y2 == line[4]
      dx == Abs(x2 - x1)
      dy == Abs(y2 - y1)
  IN IF x1 < 0 \/ x1 >= gridSize \/ y1 < 0 \/ y1 >= gridSize THEN FALSE
     ELSE IF x2 < 0 \/ x2 >= gridSize \/ y2 < 0 \/ y2 >= gridSize THEN FALSE
     ELSE IF ~((dx = 1 /\ dy <= 1) \/ (dx <= 1 /\ dy = 1)) THEN FALSE
     ELSE TRUE

\* the part of isValidLine after the array and integer tests
isValidLine(line, gridSize) ==
  LET x1 == line[1]
      y1 == line[2]
      x2 == line[3]
      y2 == line[4]
      dx == Abs(x2 - x1)
      dy == Abs(y2 - y1)
  IN IF x1 < 0 \/ x1 >= gridSize \/ y1 < 0 \/ y1 >= gridSize THEN FALSE
     ELSE IF x2 < 0 \/ x2 >= gridSize \/ y2 < 0 \/ y2 >= gridSize THEN FALSE
     ELSE IF ~((dx = 1 /\ dy = 0) \/ (dx = 0 /\ dy = 1)) THEN FALSE
     ELSE TRUE

\* A JavaScript array of numbers as isValidLine may receive it: a sequence of
\* any length whose elements count halves, so that 3 is the number 1.5 and
\* 4 is the number 2.
IsInteger(n) == n % 2 = 0

\* isValidLine from its first statement on
isValidLineArray(array, gridSize) ==
  IF Len(array) # 4 THEN FALSE
  ELSE IF ~IsInteger(array[1]) \/ ~IsInteger(array[2]) \/
          ~IsInteger(array[3]) \/ ~IsInteger(array[4]) THEN FALSE
  ELSE isValidLine(<<array[1] \div 2, array[2] \div 2, array[3] \div 2, array[4] \div 2>>,
                   gridSize)

\* ---- Box Completion ------------------------------------------------------

\* the right side is not looked up
isBoxComplete_ThreeSides(x, y, lineSet) ==
  LET top    == lineToKey(<<x, y, x + 1, y>>)
      bottom == lineToKey(<<x, y + 1, x + 1, y + 1>>)
      left   == lineToKey(<<x, y, x, y + 1>>)
  IN top \in lineSet /\ bottom \in lineSet /\ left \in lineSet

isBoxComplete(x, y, lineSet) ==
  LET top    == lineToKey(<<x, y, x + 1, y>>)
      bottom == lineToKey(<<x, y + 1, x + 1, y + 1>>)
      left   == lineToKey(<<x, y, x, y + 1>>)
      right  == lineToKey(<<x + 1, y, x + 1, y + 1>>)
  IN top \in lineSet /\ bottom \in lineSet /\ left \in lineSet /\ right \in lineSet

\* the boxes next to the line are looked up without the tests against the
\* sides of the grid
findCompletedBoxes_NoBounds(line, gridSize, lineSet) ==
  LET n == normalizeLine(line)
      x1 == n[1]
      y1 == n[2]
      x2 == n[3]
      y2 == n[4]
      isHorizontal == y1 = y2
      isVertical == x1 = x2
      topY == Min(y1, y2)
      leftX == Min(x1, x2)
      vLeft  == IF isVertical /\ isBoxComplete(x1 - 1, topY, lineSet)
                  THEN <<boxToKey(x1 - 1, topY)>> ELSE <<>>
      vRight == IF isVertical /\ isBoxComplete(x1, topY, lineSet)
                  THEN <<boxToKey(x1, topY)>> ELSE <<>>
      hAbove == IF isHorizontal /\ isBoxComplete(leftX, y1 - 1, lineSet)
                  THEN <<boxToKey(leftX, y1 - 1)>> ELSE <<>>
      hBelow == IF isHorizontal /\ isBoxComplete(leftX, y1, lineSet)
                  THEN <<boxToKey(leftX, y1)>> ELSE <<>>
  IN vLeft \o vRight \o hAbove \o hBelow

\* the array of box keys, in the order the code pushes them
findCompletedBoxes(line, gridSize, lineSet) ==
  LET n == normalizeLine(line)
      x1 == n[1]
      y1 == n[2]
      x2 == n[3]
      y2 == n[4]
      isHorizontal == y1 = y2
      isVertical == x1 = x2
      topY == Min(y1, y2)
      leftX == Min(x1, x2)
      vLeft  == IF isVertical /\ x1 > 0 /\ isBoxComplete(x1 - 1, topY, lineSet)
                  THEN <<boxToKey(x1 - 1, topY)>> ELSE <<>>
      vRight == IF isVertical /\ x1 < gridSize - 1 /\ isBoxComplete(x1, topY, lineSet)
                  THEN <<boxToKey(x1, topY)>> ELSE <<>>
      hAbove == IF isHorizontal /\ y1 > 0 /\ isBoxComplete(leftX, y1 - 1, lineSet)
                  THEN <<boxToKey(leftX, y1 - 1)>> ELSE <<>>
      hBelow == IF isHorizontal /\ y1 < gridSize - 1 /\ isBoxComplete(leftX, y1, lineSet)
                  THEN <<boxToKey(leftX, y1)>> ELSE <<>>
  IN vLeft \o vRight \o hAbove \o hBelow

\* ---- Game State Management -----------------------------------------------

createInitialState(gridSize, maxPlayers) ==
  [ gridSize      |-> gridSize,
    lines         |-> EmptyBag,
    lineSet       |-> EmptyBag,
    boxes         |-> [k \in {} |-> 0],
    scores        |-> [i \in 0..(maxPlayers - 1) |-> 0],
    currentPlayer |-> 0,
    maxPlayers    |-> maxPlayers,
    started       |-> FALSE,
    gameOver      |-> FALSE,
    winner        |-> Null ]

\* counts the sides of the boxes' rows and columns only
totalPossibleLines_Inner(gridSize) == 2 * (gridSize - 1) * (gridSize - 1)

\* counts gridSize lines in every row and column
totalPossibleLines_Dots(gridSize) == 2 * gridSize * gridSize

totalPossibleLines(gridSize) == 2 * gridSize * (gridSize - 1)

\* Math.max(...scores)
MaxScore(scores) == CHOOSE m \in {scores[i] : i \in DOMAIN scores} :
                      \A i \in DOMAIN scores : scores[i] <= m

\* scores.indexOf(max) without the draw test
determineWinner_NoDraw(scores) ==
  LET max == MaxScore(scores)
  IN CHOOSE i \in DOMAIN scores :
       scores[i] = max /\ \A j \in DOMAIN scores : scores[j] = max => i <= j

determineWinner(scores) ==
  LET max == MaxScore(scores)
      winners == {i \in DOMAIN scores : scores[i] = max}
  IN IF Cardinality(winners) > 1
       THEN Null
       ELSE CHOOSE i \in DOMAIN scores :
              scores[i] = max /\ \A j \in DOMAIN scores : scores[j] = max => i <= j

\* the score is raised once per move, however many boxes the move claims
RECURSIVE ClaimBoxes_ScoreOnce(_, _, _, _)
ClaimBoxes_ScoreOnce(completedBoxes, i, playerIndex, acc) ==
  IF i > Len(completedBoxes) THEN acc
  ELSE LET boxKey == completedBoxes[i]
       IN IF boxKey \notin DOMAIN acc.boxes
            THEN ClaimBoxes_ScoreOnce(completedBoxes, i + 1, playerIndex,
                   [ boxes |-> [k \in (DOMAIN acc.boxes) \cup {boxKey} |->
                                  IF k = boxKey THEN playerIndex ELSE acc.boxes[k]],
                     scores |-> IF acc.boxCompleted THEN acc.scores
                                ELSE [acc.scores EXCEPT ![playerIndex] = @ + 1],
                     boxCompleted |-> TRUE ])
            ELSE ClaimBoxes_ScoreOnce(completedBoxes, i + 1, playerIndex, acc)

\* newBoxes is built from the claimed box alone, the earlier owners dropped
RECURSIVE ClaimBoxes_Fresh(_, _, _, _)
ClaimBoxes_Fresh(completedBoxes, i, playerIndex, acc) ==
  IF i > Len(completedBoxes) THEN acc
  ELSE LET boxKey == completedBoxes[i]
       IN IF boxKey \notin DOMAIN acc.boxes
            THEN ClaimBoxes_Fresh(completedBoxes, i + 1, playerIndex,
                   [ boxes |-> [k \in {boxKey} |-> playerIndex],
                     scores |-> [acc.scores EXCEPT ![playerIndex] = @ + 1],
                     boxCompleted |-> TRUE ])
            ELSE ClaimBoxes_Fresh(completedBoxes, i + 1, playerIndex, acc)

\* the loop ends after the first of completedBoxes
ClaimBoxes_FirstOnly(completedBoxes, i, playerIndex, acc) ==
  IF Len(completedBoxes) = 0 \/ completedBoxes[1] \in DOMAIN acc.boxes THEN acc
  ELSE [ boxes |-> [k \in (DOMAIN acc.boxes) \cup {completedBoxes[1]} |->
                      IF k = completedBoxes[1] THEN playerIndex ELSE acc.boxes[k]],
         scores |-> [acc.scores EXCEPT ![playerIndex] = @ + 1],
         boxCompleted |-> TRUE ]

\* the for-loop of applyMove over completedBoxes, from index i on;
\* acc = [boxes, scores, boxCompleted]
RECURSIVE ClaimBoxes(_, _, _, _)
ClaimBoxes(completedBoxes, i, playerIndex, acc) ==
  IF i > Len(completedBoxes) THEN acc
  ELSE LET boxKey == completedBoxes[i]
       IN IF boxKey \notin DOMAIN acc.boxes
            THEN ClaimBoxes(completedBoxes, i + 1, playerIndex,
                   [ boxes |-> [k \in (DOMAIN acc.boxes) \cup {boxKey} |->
                                  IF k = boxKey THEN playerIndex ELSE acc.boxes[k]],
                     scores |-> [acc.scores EXCEPT ![playerIndex] = @ + 1],
                     boxCompleted |-> TRUE ])
            ELSE ClaimBoxes(completedBoxes, i + 1, playerIndex, acc)

\* the turn passes on even when a box was completed
NextPlayer_Always(boxCompleted, playerIndex, maxPlayers) == (playerIndex + 1) % maxPlayers

\* the index is not wrapped at maxPlayers
NextPlayer_NoWrap(boxCompleted, playerIndex, maxPlayers) ==
  IF boxCompleted THEN playerIndex ELSE playerIndex + 1

NextPlayer(boxCompleted, playerIndex, maxPlayers) ==
  IF boxCompleted THEN playerIndex ELSE (playerIndex + 1) % maxPlayers

\* the duplicate test is left out
IsDuplicate_Never(key, lineSetAsSet) == FALSE

\* `lineSetAsSet.has(key)`
IsDuplicate(key, lineSetAsSet) == key \in lineSetAsSet

\* the rejection says which test of applyMove failed
Rejected_Tagged(failedTest) == [isNull |-> TRUE, reason |-> failedTest]

\* `return null` of applyMove; failedTest names the `if` it stands in
Rejected(failedTest) == NullState

applyMove(s, line, playerIndex) ==
  IF ~isValidLine(line, s.gridSize) THEN Rejected("isValidLine")
  ELSE IF s.gameOver THEN Rejected("gameOver")
  ELSE IF s.currentPlayer # playerIndex THEN Rejected("currentPlayer")
  ELSE
    LET normalized == normalizeLine(line)
        key == lineToKey(normalized)
        lineSetAsSet == BagToSet(s.lineSet)
    IN IF IsDuplicate(key, lineSetAsSet) THEN Rejected("lineSetAsSet.has")
       ELSE
         LET newLines == s.lines (+) SetToBag({normalized})
             newLineSet == s.lineSet (+) SetToBag({key})
             completedBoxes == findCompletedBoxes(normalized, s.gridSize, lineSetAsSet \cup {key})
             claimed == ClaimBoxes(completedBoxes, 1, playerIndex,
                          [boxes |-> s.boxes, scores |-> s.scores, boxCompleted |-> FALSE])
             nextPlayer == NextPlayer(claimed.boxCompleted, playerIndex, s.maxPlayers)
             totalLines == totalPossibleLines(s.gridSize)
             gameOver == BagCardinality(newLines) >= totalLines
             winner == IF gameOver THEN determineWinner(claimed.scores) ELSE Null
         IN [ s EXCEPT !.lines = newLines,
                       !.lineSet = newLineSet,
                       !.boxes = claimed.boxes,
                       !.scores = claimed.scores,
                       !.currentPlayer = IF gameOver THEN playerIndex ELSE nextPlayer,
                       !.gameOver = gameOver,
                       !.winner = winner ]

\* the horizontal lines are visited column by column
HorizontalLines_ColumnMajor(gridSize) ==
  [i \in 1..(gridSize * (gridSize - 1)) |->
     LET x == (i - 1) \div gridSize
         y == (i - 1) % gridSize
     IN <<x, y, x + 1, y>>]

\* the lines the two loop nests of getAvailableLines visit, in visiting order
HorizontalLines(gridSize) ==
  [i \in 1..(gridSize * (gridSize - 1)) |->
     LET y == (i - 1) \div (gridSize - 1)
         x == (i - 1) % (gridSize - 1)
     IN <<x, y, x + 1, y>>]

VerticalLines(gridSize) ==
  [i \in 1..((gridSize - 1) * gridSize) |->
     LET y == (i - 1) \div gridSize
         x == (i - 1) % gridSize
     IN <<x, y, x, y + 1>>]

getAvailableLines(s) ==
  LET lineSet == BagToSet(s.lineSet)
      Undrawn(line) == lineToKey(line) \notin lineSet
  IN SelectSeq(HorizontalLines(s.gridSize), Undrawn) \o SelectSeq(VerticalLines(s.gridSize), Undrawn)

\* Count how many sides of the box at (x, y) are drawn
countBoxSides(x, y, lineSet) ==
  LET top    == IF lineToKey(<<x, y, x + 1, y>>) \in lineSet THEN 1 ELSE 0
      bottom == IF lineToKey(<<x, y + 1, x + 1, y + 1>>) \in lineSet THEN 1 ELSE 0
      left   == IF lineToKey(<<x, y, x, y + 1>>) \in lineSet THEN 1 ELSE 0
      right  == IF lineToKey(<<x + 1, y, x + 1, y + 1>>) \in lineSet THEN 1 ELSE 0
  IN top + bottom + left + right

\* ---- AI Strategy Functions (frontend/src/hooks/useAI.ts) -------------------
\* easyAI and mediumAI draw from Math.random(): the model gives the set of
\* the lines each may return.

Max(a, b) == IF a > b THEN a ELSE b

\* stands for Infinity: no score differential reaches it
Infinity == MAX_GRID_SIZE * MAX_GRID_SIZE

\* the values of Math.floor(Math.random() * n)
RandomIndex(n) == 0..(n - 1)

\* the choice is made among all lines of the board, drawn or not
easyAI_AllLines(s) ==
  LET available == HorizontalLines(s.gridSize) \o VerticalLines(s.gridSize)
  IN IF Len(getAvailableLines(s)) = 0 THEN {NoLine}
     ELSE {available[i + 1] : i \in RandomIndex(Len(available))}

easyAI(s) ==
  LET available == getAvailableLines(s)
  IN IF Len(available) = 0 THEN {NoLine}
     ELSE {available[i + 1] : i \in RandomIndex(Len(available))}

\* the body of the first loop of mediumAI: drawing the line completes a box
CompletesBox(s, line) ==
  LET normalized == normalizeLine(line)
      key == lineToKey(normalized)
      testSet == BagToSet(s.lineSet) \cup {key}
      completed == findCompletedBoxes(normalized, s.gridSize, testSet)
  IN Len(completed) > 0

\* the last line that completes a box is returned
PriorityOne_Last(s, available) ==
  LET Completing(line) == CompletesBox(s, line)
      completing == SelectSeq(available, Completing)
  IN IF Len(completing) > 0 THEN completing[Len(completing)] ELSE NoLine

\* Priority 1 of mediumAI: the first available line that completes a box,
\* NoLine when the loop ends without a return
PriorityOne(s, available) ==
  LET Completing(line) == CompletesBox(s, line)
      completing == SelectSeq(available, Completing)
  IN IF Len(completing) > 0 THEN completing[1] ELSE NoLine

\* no line is held to create danger
CreatesDanger_Never(s, line) == FALSE

\* the body of the second loop of mediumAI: createsDanger for the line
CreatesDanger(s, line) ==
  LET normalized == normalizeLine(line)
      key == lineToKey(normalized)
      testSet == BagToSet(s.lineSet) \cup {key}
  IN \E y \in 0..(s.gridSize - 2) : \E x \in 0..(s.gridSize - 2) :
       countBoxSides(x, y, testSet) = 3 /\ boxToKey(x, y) \notin DOMAIN s.boxes

mediumAI(s) ==
  LET available == getAvailableLines(s)
  IN IF Len(available) = 0 THEN {NoLine}
     ELSE
       LET first == PriorityOne(s, available)
       IN IF first # NoLine THEN {first}
          ELSE
            LET Safe(line) == ~CreatesDanger(s, line)
                safeMoves == SelectSeq(available, Safe)
            IN IF Len(safeMoves) > 0
                 THEN {safeMoves[i + 1] : i \in RandomIndex(Len(safeMoves))}
                 ELSE {available[i + 1] : i \in RandomIndex(Len(available))}

\* scores.reduce over the players other than aiPlayerIndex, from index i on
RECURSIVE OpponentScore(_, _, _)
OpponentScore(scores, aiPlayerIndex, i) ==
  IF i \notin DOMAIN scores THEN 0
  ELSE (IF i # aiPlayerIndex THEN scores[i] ELSE 0) + OpponentScore(scores, aiPlayerIndex, i + 1)

\* the score differential from the AI's perspective
Evaluate(s, aiPlayerIndex) ==
  LET aiScore == s.scores[aiPlayerIndex]
      opponentScore == OpponentScore(s.scores, aiPlayerIndex, 0)
  IN aiScore - opponentScore

\* What a search leaves behind besides its value: one record for every call
\* of minimax that returned the evaluation (a leaf), one for every call that
\* ran a loop (a node) and one for every move scored by hardAI (a root move).
\* `drawn` is the number of lines of the state the call was given.
LeafSeen(s) == [kind |-> "leaf", drawn |-> BagCardinality(s.lines), gameOver |-> s.gameOver]

NodeSeen(s, maximizing, aiPlayerIndex) ==
  [kind |-> "node", drawn |-> BagCardinality(s.lines), maximizing |-> maximizing,
   aiToMove |-> s.currentPlayer = aiPlayerIndex]

RootSeen(i, score) == [kind |-> "root", index |-> i, score |-> score]

\* `break` left lines of `available` unexplored
CutSeen(s, available, i) ==
  IF i < Len(available) THEN {[kind |-> "cut", drawn |-> BagCardinality(s.lines)]} ELSE {}

\* `return aiScore - opponentScore`
Leaf(s, aiPlayerIndex) == [value |-> Evaluate(s, aiPlayerIndex), seen |-> {LeafSeen(s)}]

RECURSIVE minimaxCall(_, _, _, _, _, _)
RECURSIVE MaxLoop(_, _, _, _, _, _, _, _, _)
RECURSIVE MinLoop(_, _, _, _, _, _, _, _, _)

\* the maximizing loop breaks after its first round
MaxEnd_CutAlways(s, available, i, depth, alpha, beta, aiPlayerIndex, maxEval, seen, eval) ==
  [value |-> Max(maxEval, eval.value),
   seen  |-> seen \cup eval.seen \cup CutSeen(s, available, i)]

\* the end of one round of the maximizing loop, eval_ being known
MaxEnd(s, available, i, depth, alpha, beta, aiPlayerIndex, maxEval, seen, eval) ==
  IF beta <= Max(alpha, eval.value)
    THEN [value |-> Max(maxEval, eval.value),
          seen  |-> seen \cup eval.seen \cup CutSeen(s, available, i)]
    ELSE MaxLoop(s, available, i + 1, depth, Max(alpha, eval.value), beta, aiPlayerIndex,
                 Max(maxEval, eval.value), seen \cup eval.seen)

\* one round of the maximizing loop, newState being known
MaxRound(s, available, i, depth, alpha, beta, aiPlayerIndex, maxEval, seen, newState) ==
  IF newState = NullState
    THEN MaxLoop(s, available, i + 1, depth, alpha, beta, aiPlayerIndex, maxEval, seen)
    ELSE MaxEnd(s, available, i, depth, alpha, beta, aiPlayerIndex, maxEval, seen,
                minimaxCall(newState, depth - 1, alpha, beta,
                            newState.currentPlayer = aiPlayerIndex, aiPlayerIndex))

\* the for-loop of the maximizing branch of minimax, from available[i] on
MaxLoop(s, available, i, depth, alpha, beta, aiPlayerIndex, maxEval, seen) ==
  IF i > Len(available) THEN [value |-> maxEval, seen |-> seen]
  ELSE MaxRound(s, available, i, depth, alpha, beta, aiPlayerIndex, maxEval, seen,
                applyMove(s, normalizeLine(available[i]), s.currentPlayer))

\* the end of one round of the minimizing loop, eval_ being known
MinEnd(s, available, i, depth, alpha, beta, aiPlayerIndex, minEval, seen, eval) ==
  IF Min(beta, eval.value) <= alpha
    THEN [value |-> Min(minEval, eval.value),
          seen  |-> seen \cup eval.seen \cup CutSeen(s, available, i)]
    ELSE MinLoop(s, available, i + 1, depth, alpha, Min(beta, eval.value), aiPlayerIndex,
                 Min(minEval, eval.value), seen \cup eval.seen)

\* one round of the minimizing loop, newState being known
MinRound(s, available, i, depth, alpha, beta, aiPlayerIndex, minEval, seen, newState) ==
  IF newState = NullState
    THEN MinLoop(s, available, i + 1, depth, alpha, beta, aiPlayerIndex, minEval, seen)
    ELSE MinEnd(s, available, i, depth, alpha, beta, aiPlayerIndex, minEval, seen,
                minimaxCall(newState, depth - 1, alpha, beta,
                            newState.currentPlayer = aiPlayerIndex, aiPlayerIndex))

\* the for-loop of the minimizing branch of minimax, from available[i] on
MinLoop(s, available, i, depth, alpha, beta, aiPlayerIndex, minEval, seen) ==
  IF i > Len(available) THEN [value |-> minEval, seen |-> seen]
  ELSE MinRound(s, available, i, depth, alpha, beta, aiPlayerIndex, minEval, seen,
                applyMove(s, normalizeLine(available[i]), s.currentPlayer))

\* the flag passed in decides alone
IsMaximizingNode_FlagOnly(s, isMaximizing, aiPlayerIndex) == isMaximizing

\* `if (isMaximizing || state.currentPlayer === aiPlayerIndex)`
IsMaximizingNode(s, isMaximizing, aiPlayerIndex) ==
  isMaximizing \/ s.currentPlayer = aiPlayerIndex

\* the two loops of minimax, the branch being known
Loops(s, depth, alpha, beta, aiPlayerIndex, available, maximizing) ==
  IF maximizing
    THEN MaxLoop(s, available, 1, depth, alpha, beta, aiPlayerIndex, 0 - Infinity,
                 {NodeSeen(s, TRUE, aiPlayerIndex)})
    ELSE MinLoop(s, available, 1, depth, alpha, beta, aiPlayerIndex, Infinity,
                 {NodeSeen(s, FALSE, aiPlayerIndex)})

\* minimax once `available` is known
Branch(s, depth, alpha, beta, isMaximizing, aiPlayerIndex, available) ==
  IF Len(available) = 0 THEN Leaf(s, aiPlayerIndex)
  ELSE Loops(s, depth, alpha, beta, aiPlayerIndex, available,
             IsMaximizingNode(s, isMaximizing, aiPlayerIndex))

\* a call of minimax: the value it returns and what it leaves behind
minimaxCall(s, depth, alpha, beta, isMaximizing, aiPlayerIndex) ==
  IF depth = 0 \/ s.gameOver THEN Leaf(s, aiPlayerIndex)
  ELSE Branch(s, depth, alpha, beta, isMaximizing, aiPlayerIndex, getAvailableLines(s))

minimax(s, depth, alpha, beta, isMaximizing, aiPlayerIndex) ==
  minimaxCall(s, depth, alpha, beta, isMaximizing, aiPlayerIndex).value

RECURSIVE BestLoop(_, _, _, _, _, _, _, _)

\* a later move of the same score replaces the best one
BestEnd_LastTie(s, available, i, maxDepth, aiPlayerIndex, bestScore, bestMove, seen, score) ==
  IF score.value >= bestScore
    THEN BestLoop(s, available, i + 1, maxDepth, aiPlayerIndex, score.value, available[i],
                  seen \cup score.seen \cup {RootSeen(i, score.value)})
    ELSE BestLoop(s, available, i + 1, maxDepth, aiPlayerIndex, bestScore, bestMove,
                  seen \cup score.seen \cup {RootSeen(i, score.value)})

\* the end of one round of the loop of hardAI, score being known
BestEnd(s, available, i, maxDepth, aiPlayerIndex, bestScore, bestMove, seen, score) ==
  IF score.value > bestScore
    THEN BestLoop(s, available, i + 1, maxDepth, aiPlayerIndex, score.value, available[i],
                  seen \cup score.seen \cup {RootSeen(i, score.value)})
    ELSE BestLoop(s, available, i + 1, maxDepth, aiPlayerIndex, bestScore, bestMove,
                  seen \cup score.seen \cup {RootSeen(i, score.value)})

\* one round of the loop of hardAI, newState being known
BestRound(s, available, i, maxDepth, aiPlayerIndex, bestScore, bestMove, seen, newState) ==
  IF newState = NullState
    THEN BestLoop(s, available, i + 1, maxDepth, aiPlayerIndex, bestScore, bestMove, seen)
    ELSE BestEnd(s, available, i, maxDepth, aiPlayerIndex, bestScore, bestMove, seen,
                 minimaxCall(newState, maxDepth - 1, 0 - Infinity, Infinity, FALSE,
                             aiPlayerIndex))

\* the for-loop of hardAI, from available[i] on
BestLoop(s, available, i, maxDepth, aiPlayerIndex, bestScore, bestMove, seen) ==
  IF i > Len(available) THEN [move |-> bestMove, seen |-> seen]
  ELSE BestRound(s, available, i, maxDepth, aiPlayerIndex, bestScore, bestMove, seen,
                 applyMove(s, normalizeLine(available[i]), s.currentPlayer))

\* the move made to reach the children is counted in the depth already
MaxDepth_OneLess(available) ==
  IF Len(available) <= FULL_SEARCH_LINES THEN Len(available) - 1 ELSE LIMITED_DEPTH

\* `const maxDepth = available.length <= 12 ? available.length : 6`
MaxDepth(available) ==
  IF Len(available) <= FULL_SEARCH_LINES THEN Len(available) ELSE LIMITED_DEPTH

\* hardAI once `available` is known
Search(s, aiPlayerIndex, available) ==
  IF Len(available) = 0 THEN [move |-> NoLine, seen |-> {}]
  ELSE BestLoop(s, available, 1, MaxDepth(available), aiPlayerIndex, 0 - Infinity, NoLine, {})

\* a call of hardAI: the move it returns and what its search leaves behind
hardAICall(s, aiPlayerIndex) == Search(s, aiPlayerIndex, getAvailableLines(s))

hardAI(s, aiPlayerIndex) == hardAICall(s, aiPlayerIndex).move

\* ---- the server: values ----------------------------------------------------

\* the ids socket.io gives to the connections, in the order they are made
SocketIds == {"s" \o ToString(i) : i \in 1..MaxSockets}

\* the RoomManager holds no room
NoRoom == [exists |-> FALSE]

\* nothing was emitted
NoEmit == [handler |-> "none"]

\* rate limiter: no socket has a bucket
NoBuckets == [s \in {} |-> <<>>]

\* the server as it starts: no connection, no room
ServerOff ==
  /\ room = NoRoom
  /\ sockets = [s \in SocketIds |-> "new"]
  /\ buckets = NoBuckets
  /\ now = 0
  /\ lastCheck = 0
  /\ emitted = NoEmit

\* ---- the server: rate limiter -----------------------------------------------

\* the events with a case in the switch of checkRateLimit
LimitedEvents == {"makeMove", "createRoom"}

MaxEvents(event) ==
  IF event = "makeMove" THEN RATE_LIMIT_MOVES_PER_SECOND ELSE RATE_LIMIT_ROOMS_PER_MINUTE

WindowMs(event) == IF event = "makeMove" THEN MOVE_WINDOW_MS ELSE ROOM_WINDOW_MS

\* bucket.timestamps of getBucket(socketId, event, ...), empty for a new bucket
Timestamps(b, socketId, event) ==
  IF socketId \in DOMAIN b /\ event \in DOMAIN b[socketId] THEN b[socketId][event] ELSE <<>>

\* socketBuckets after bucket.timestamps of (socketId, event) was assigned
WithTimestamps(b, socketId, event, timestamps) ==
  LET eventMap == IF socketId \in DOMAIN b THEN b[socketId] ELSE NoBuckets
  IN [s \in DOMAIN b \cup {socketId} |->
        IF s # socketId THEN b[s]
        ELSE [e \in DOMAIN eventMap \cup {event} |->
                IF e = event THEN timestamps ELSE eventMap[e]]]

\* a timestamp as old as the window is kept
InWindow_Inclusive(timestamps, t, windowMs) ==
  LET Recent(x) == t - x <= windowMs
  IN SelectSeq(timestamps, Recent)

\* `bucket.timestamps.filter((t) => now - t < bucket.windowMs)`
InWindow(timestamps, t, windowMs) ==
  LET Recent(x) == t - x < windowMs
  IN SelectSeq(timestamps, Recent)

\* checkRateLimit once the filter has run
Admit(b, socketId, event, t, kept) ==
  IF Len(kept) >= MaxEvents(event)
    THEN [allowed |-> FALSE, buckets |-> WithTimestamps(b, socketId, event, kept)]
    ELSE [allowed |-> TRUE, buckets |-> WithTimestamps(b, socketId, event, Append(kept, t))]

\* checkRateLimit(socketId, event) called at time t with socketBuckets = b:
\* what it returns and what it leaves in socketBuckets
checkRateLimit(b, socketId, event, t) ==
  IF event \notin LimitedEvents THEN [allowed |-> TRUE, buckets |-> b]
  ELSE Admit(b, socketId, event, t,
             InWindow(Timestamps(b, socketId, event), t, WindowMs(event)))

\* cleanupRateLimit(socketId)
cleanupRateLimit(b, socketId) == [s \in DOMAIN b \ {socketId} |-> b[s]]

\* ---- the server: room manager ------------------------------------------------
\* A PlayerInfo is its id and name (color and avatar are never read).  The
\* players array is a sequence; playerIndex counts from 0 as in the code, so
\* players[playerIndex] of the code is players[playerIndex + 1] here.

\* the id uuidv4() gave to the room the model follows, and an id of no room
RoomId == "room"

UnknownRoomId == "no room"

\* the name a client gives in playerInfo: one name per connection
NameOf(socketId) == "player of " \o socketId

PlayerInfoOf(socketId) == [id |-> socketId, name |-> NameOf(socketId)]

\* an index of the players array that was never assigned (`undefined`)
Hole == [id |-> "undefined", name |-> "undefined"]

\* `new Map()` of disconnectedPlayers
NoDisconnected == [p \in {} |-> 0]

\* the result of findIndex when the callback reads `.id` of undefined
Threw == -2

\* the first index in 1..n that is a hit or a hole, 0 if there is none
RECURSIVE FirstOf(_, _, _)
FirstOf(players, id, i) ==
  IF i > Len(players) THEN 0
  ELSE IF players[i] = Hole \/ players[i].id = id THEN i
  ELSE FirstOf(players, id, i + 1)

FoundAt(players, i) == IF i = 0 THEN -1 ELSE IF players[i] = Hole THEN Threw ELSE i - 1

\* `room.players.findIndex(p => p.id === socketId)`
findIndex(players, id) == FoundAt(players, FirstOf(players, id, 1))

\* `room.players.splice(playerIndex, 1)`
splice(players, playerIndex) ==
  [i \in 1..(Len(players) - 1) |-> IF i <= playerIndex THEN players[i] ELSE players[i + 1]]

\* `room.players[playerIndex] = info`: the array grows, with holes, when the
\* index lies beyond its end
SetAt(players, playerIndex, info) ==
  [i \in 1..(IF playerIndex + 1 > Len(players) THEN playerIndex + 1 ELSE Len(players)) |->
     IF i = playerIndex + 1 THEN info
     ELSE IF i <= Len(players) THEN players[i] ELSE Hole]

\* the payloads are made of integers: Number.isInteger holds
isValidGridSize(gridSize) == gridSize >= MIN_GRID_SIZE /\ gridSize <= MAX_GRID_SIZE

isValidPlayerCount(count) == count >= MIN_PLAYERS /\ count <= MAX_PLAYERS

\* RoomManager.createRoom: the Room it stores (without createdAt, which only
\* cleanupExpiredRooms reads, an hour later)
createRoom(gridSize, maxPlayers, creatorInfo) ==
  [ exists              |-> TRUE,
    players             |-> <<creatorInfo>>,
    state               |-> createInitialState(
                              IF isValidGridSize(gridSize) THEN gridSize ELSE DEFAULT_GRID_SIZE,
                              IF isValidPlayerCount(maxPlayers)
                                THEN maxPlayers ELSE DEFAULT_PLAYERS),
    creator             |-> creatorInfo.id,
    disconnectedPlayers |-> NoDisconnected ]

\* RoomManager.joinRoom: its result and the room after it
joinRoom(r, roomId, playerInfo) ==
  IF roomId # RoomId \/ ~r.exists THEN [success |-> FALSE, room |-> r, error |-> "Room not found."]
  ELSE IF r.state.started
    THEN [success |-> FALSE, room |-> r, error |-> "Game already in progress."]
  ELSE IF Len(r.players) >= r.state.maxPlayers
    THEN [success |-> FALSE, room |-> r, error |-> "Room is full."]
  ELSE IF \E i \in 1..Len(r.players) : r.players[i].id = playerInfo.id
    THEN [success |-> TRUE, room |-> r, error |-> ""]
  ELSE [success |-> TRUE, room |-> [r EXCEPT !.players = Append(@, playerInfo)], error |-> ""]

\* the Map without the entry of playerId
WithoutEntry(disconnectedPlayers, playerId) ==
  [p \in DOMAIN disconnectedPlayers \ {playerId} |-> disconnectedPlayers[p]]

\* the Map after `set(playerId, entry)`
WithEntry(disconnectedPlayers, playerId, entry) ==
  [p \in DOMAIN disconnectedPlayers \cup {playerId} |->
     IF p = playerId THEN entry ELSE disconnectedPlayers[p]]

\* the player comes back at the end of the array
Restored_Appended(r, disconnected, newSocketId) ==
  Append(r.players, [disconnected.playerInfo EXCEPT !.id = newSocketId])

\* rejoinRoom: `room.players[disconnected.playerIndex] = restoredInfo`
Restored(r, disconnected, newSocketId) ==
  SetAt(r.players, disconnected.playerIndex,
        [disconnected.playerInfo EXCEPT !.id = newSocketId])

\* rejoinRoom once the entry was found
Rejoined(r, playerId, newSocketId, disconnected) ==
  [ success     |-> TRUE,
    room        |-> [r EXCEPT !.players = Restored(r, disconnected, newSocketId),
                              !.disconnectedPlayers = WithoutEntry(@, playerId),
                              !.creator = IF @ = playerId THEN newSocketId ELSE @],
    playerIndex |-> disconnected.playerIndex,
    error       |-> "" ]

\* RoomManager.rejoinRoom: its result and the room after it
rejoinRoom(r, roomId, playerId, newSocketId) ==
  IF roomId # RoomId \/ ~r.exists
    THEN [success |-> FALSE, room |-> r, playerIndex |-> -1, error |-> "Room not found."]
  ELSE IF playerId \notin DOMAIN r.disconnectedPlayers
    THEN [success |-> FALSE, room |-> r, playerIndex |-> -1,
          error |-> "No reconnection available."]
  ELSE Rejoined(r, playerId, newSocketId, r.disconnectedPlayers[playerId])

\* the creator stays the one who left
Removed_CreatorKept(r, socketId, playerIndex, players) ==
  IF Len(players) = 0 THEN [found |-> FALSE, room |-> NoRoom, playerIndex |-> playerIndex]
  ELSE [found |-> TRUE, room |-> [r EXCEPT !.players = players], playerIndex |-> playerIndex]

\* handleDisconnect, the branch of a game not started or over: the player is
\* removed, an empty room is deleted, the creator reassigned
Removed(r, socketId, playerIndex, players) ==
  IF Len(players) = 0 THEN [found |-> FALSE, room |-> NoRoom, playerIndex |-> playerIndex]
  ELSE [ found       |-> TRUE,
         room        |-> [r EXCEPT !.players = players,
                                   !.creator = IF @ = socketId THEN players[1].id ELSE @],
         playerIndex |-> playerIndex ]

\* handleDisconnect, the branch of a game in progress: the entry is set and
\* the slot marked
Marked(r, socketId, playerIndex, playerInfo, t) ==
  [ found       |-> TRUE,
    room        |-> [r EXCEPT
                       !.disconnectedPlayers =
                          WithEntry(@, socketId, [playerIndex    |-> playerIndex,
                                                  playerInfo     |-> playerInfo,
                                                  disconnectedAt |-> t]),
                       !.players[playerIndex + 1] =
                          [id   |-> "disconnected-" \o socketId,
                           name |-> playerInfo.name \o " (disconnected)"]],
    playerIndex |-> playerIndex ]

Left(r, socketId, playerIndex, t) ==
  IF playerIndex = -1 THEN [found |-> FALSE, room |-> r, playerIndex |-> -1]
  ELSE IF playerIndex = Threw THEN [found |-> FALSE, room |-> r, playerIndex |-> Threw]
  ELSE IF ~r.state.started \/ r.state.gameOver
    THEN Removed(r, socketId, playerIndex, splice(r.players, playerIndex))
  ELSE Marked(r, socketId, playerIndex, r.players[playerIndex + 1], t)

\* RoomManager.handleDisconnect: found = it returned a result (not null),
\* the room after it, and the index (Threw when findIndex threw)
handleDisconnect(r, socketId, t) ==
  IF ~r.exists THEN [found |-> FALSE, room |-> r, playerIndex |-> -1]
  ELSE Left(r, socketId, findIndex(r.players, socketId), t)

\* `now - disc.disconnectedAt > RECONNECT_TIMEOUT_SECONDS * 1000`
Expired(entry, t) == t - entry.disconnectedAt > RECONNECT_TIMEOUT_SECONDS * MS_PER_SECOND

\* the playerIds checkReconnectionTimeouts puts in `expired`
ExpiredIds(r, t) ==
  IF ~r.exists THEN {}
  ELSE {p \in DOMAIN r.disconnectedPlayers : Expired(r.disconnectedPlayers[p], t)}

\* the game is ended when a reconnection window expires
checkReconnectionTimeouts_GameEnded(r, t) ==
  IF ~r.exists THEN r
  ELSE [r EXCEPT !.disconnectedPlayers =
                    [p \in DOMAIN r.disconnectedPlayers \ ExpiredIds(r, t) |->
                       r.disconnectedPlayers[p]],
                 !.state.gameOver = @ \/ ExpiredIds(r, t) # {}]

\* RoomManager.checkReconnectionTimeouts: the room after it
checkReconnectionTimeouts(r, t) ==
  IF ~r.exists THEN r
  ELSE [r EXCEPT !.disconnectedPlayers =
          [p \in DOMAIN r.disconnectedPlayers \ ExpiredIds(r, t) |-> r.disconnectedPlayers[p]]]

\* the Map `rooms` is the sequence of its values in the order of insertion,
\* the order in which `for (... of this.rooms)` visits them; each Room bears
\* its key
WithRoomId(r, roomId) == [roomId |-> roomId] @@ r

\* `this.rooms.get(roomId)`, NoRoom for undefined
RoomOf(rooms, roomId) ==
  IF \E i \in 1..Len(rooms) : rooms[i].roomId = roomId
    THEN rooms[CHOOSE i \in 1..Len(rooms) : rooms[i].roomId = roomId]
    ELSE NoRoom

\* the Map after the Room of key r.roomId was changed into r
WithRoom(rooms, r) == [i \in 1..Len(rooms) |-> IF rooms[i].roomId = r.roomId THEN r ELSE rooms[i]]

\* `this.rooms.delete(roomId)`
WithoutRoom(rooms, roomId) ==
  LET Other(r) == r.roomId # roomId
  IN SelectSeq(rooms, Other)

\* the loop of handleDisconnect once it has found socketId in rooms[i]: the
\* body runs for that Room and returns
LeftRoom(rooms, i, result) ==
  [ found |-> result.found,
    rooms |-> IF result.room = NoRoom THEN WithoutRoom(rooms, rooms[i].roomId)
              ELSE WithRoom(rooms, result.room) ]

\* RoomManager.handleDisconnect, the loop over the rooms from the i-th on
RECURSIVE handleDisconnectFrom(_, _, _, _)
handleDisconnectFrom(rooms, i, socketId, t) ==
  IF i > Len(rooms) THEN [found |-> FALSE, rooms |-> rooms]
  ELSE IF findIndex(rooms[i].players, socketId) = -1
    THEN handleDisconnectFrom(rooms, i + 1, socketId, t)
  ELSE LeftRoom(rooms, i, Left(rooms[i], socketId, findIndex(rooms[i].players, socketId), t))

\* the Room with its `createdAt: Date.now()`
WithCreatedAt(r, t) == [createdAt |-> t] @@ r

\* RoomManager.cleanupExpiredRooms run at time t: the room after it
cleanupExpiredRooms(r, t) ==
  IF ~r.exists THEN r
  ELSE IF t - r.createdAt > ROOM_TTL_MS THEN NoRoom
  ELSE IF r.state.gameOver /\ t - r.createdAt > FINISHED_ROOM_AGE_MS THEN NoRoom
  ELSE r

\* ---- the state machine ---------------------------------------------------

\* nAccepted counts the applyMove calls that returned a state.
\* A move clears `fn`: what a function returned for the earlier state says
\* nothing about the new one.
\* `call` is the record of the most recent applyMove call: whether one was
\* made, whether it returned a state, the playerIndex passed and the box keys
\* that gained an owner in it
NoCall == [made |-> FALSE, accepted |-> FALSE, playerIndex |-> 0, claimed |-> {}]

Init ==
  /\ \E maxPlayers \in PlayerCounts :
       state = createInitialState(GridSize, maxPlayers)
  /\ call = NoCall
  /\ nAccepted = 0
  /\ fn = NoFn
  /\ ServerOff

\* the inputs that pass the first statement of applyMove,
\* `if (!isValidLine(line, state.gridSize)) return null`
PassingLines == {line \in LineInputs : isValidLine(line, GridSize)}

\* applyMove(state, line, playerIndex) returns a state: the holder replaces
\* its state by it.  (An input outside PassingLines returns null whatever the
\* state is, so only the passing ones are tried here.)
MoveAccepted ==
  \E line \in PassingLines, playerIndex \in PlayerInputs(state.maxPlayers) :
    LET next == applyMove(state, line, playerIndex)
    IN /\ next # NullState
       /\ state' = next
       /\ call' = [made |-> TRUE, accepted |-> TRUE, playerIndex |-> playerIndex,
                   claimed |-> (DOMAIN next.boxes) \ (DOMAIN state.boxes)]
       /\ nAccepted' = nAccepted + 1
       /\ fn' = NoFn
       /\ UNCHANGED serverVars

\* applyMove(state, line, playerIndex) returns null: the holder keeps its state
MoveRejected ==
  /\ ~(\A line \in LineInputs, playerIndex \in PlayerInputs(state.maxPlayers) :
         applyMove(state, line, playerIndex) # NullState)
  /\ state' = state
  /\ call' = [made |-> TRUE, accepted |-> FALSE, playerIndex |-> 0, claimed |-> {}]
  /\ UNCHANGED nAccepted
  /\ fn' = NoFn
  /\ UNCHANGED serverVars

Next == MoveAccepted \/ MoveRejected

Spec == Init /\ [][Next]_vars

\* ---- functions applied on their own ---------------------------------------
\* The exported functions are pure: each specification below applies them
\* once to an input drawn from a bounded set and records the result in
\* `fn`.  No game is played meanwhile.

FnInit ==
  /\ state = createInitialState(GridSize, MIN_PLAYERS)
  /\ call = NoCall
  /\ nAccepted = 0
  /\ fn = NoFn
  /\ ServerOff

KeyCoords == ((0 - KeySpan)..KeySpan) \cup {MAX_GRID_SIZE}

\* any 4-tuple of integers is a Line to normalizeLine and lineToKey
EdgeInputs == KeyCoords \X KeyCoords \X KeyCoords \X KeyCoords

NormalizeLine ==
  /\ fn = NoFn
  /\ \E line \in EdgeInputs :
       fn' = [op |-> "normalizeLine", line |-> line, result |-> normalizeLine(line)]
  /\ UNCHANGED <<state, call, nAccepted>>
  /\ UNCHANGED serverVars

LineToKey ==
  /\ fn = NoFn
  /\ \E line \in EdgeInputs :
       fn' = [op |-> "lineToKey", line |-> line, result |-> lineToKey(line)]
  /\ UNCHANGED <<state, call, nAccepted>>
  /\ UNCHANGED serverVars

EdgeNext == NormalizeLine \/ LineToKey

SpecEdge == FnInit /\ [][EdgeNext]_vars

GridSizes == MIN_GRID_SIZE..MAX_GRID_SIZE

CoordsOf(gridSize) == (0 - Overshoot)..(gridSize - 1 + Overshoot)

\* LineInputs for a grid of any size
LineInputsOf(gridSize) ==
  {<<p[1], p[2], p[1] + d[1], p[2] + d[2]>> :
     p \in CoordsOf(gridSize) \X CoordsOf(gridSize), d \in Deltas}

\* the array of the numbers of a Line
ArrayOf(line) == <<2 * line[1], 2 * line[2], 2 * line[3], 2 * line[4]>>

\* the arrays isValidLine is given: every Line of LineInputsOf, the same with
\* one coordinate moved by a half, with the last element missing and with one
\* element too many
ArrayInputs(gridSize) ==
  UNION { {ArrayOf(line), SubSeq(ArrayOf(line), 1, 3), Append(ArrayOf(line), 0)}
            \cup {[ArrayOf(line) EXCEPT ![i] = @ + 1] : i \in 1..4} :
          line \in LineInputsOf(gridSize) }

IsValidLine ==
  /\ fn = NoFn
  /\ \E gridSize \in GridSizes :
       \E array \in ArrayInputs(gridSize) :
         fn' = [op |-> "isValidLine", array |-> array, gridSize |-> gridSize,
                result |-> isValidLineArray(array, gridSize)]
  /\ UNCHANGED <<state, call, nAccepted>>
  /\ UNCHANGED serverVars

TotalPossibleLines ==
  /\ fn = NoFn
  /\ \E gridSize \in GridSizes :
       fn' = [op |-> "totalPossibleLines", gridSize |-> gridSize,
              result |-> totalPossibleLines(gridSize)]
  /\ UNCHANGED <<state, call, nAccepted>>
  /\ UNCHANGED serverVars

GridNext == IsValidLine \/ TotalPossibleLines

SpecGrid == FnInit /\ [][GridNext]_vars

\* ---- the strategies applied to the states of a game -----------------------
\* A two-player game is played (the game against the AI has two players);
\* in any state a strategy may be applied and what it returns is recorded.
\* The game goes on from the states in which nothing is recorded.

PlayMove == fn = NoFn /\ MoveAccepted

EasyAI ==
  /\ fn = NoFn
  /\ \E move \in easyAI(state) : fn' = [op |-> "easyAI", result |-> move]
  /\ UNCHANGED <<state, call, nAccepted>>
  /\ UNCHANGED serverVars

MediumAI ==
  /\ fn = NoFn
  /\ \E move \in mediumAI(state) : fn' = [op |-> "mediumAI", result |-> move]
  /\ UNCHANGED <<state, call, nAccepted>>
  /\ UNCHANGED serverVars

\* any available line may come back
hardAIReturns_Random(s, aiPlayerIndex) ==
  {[move |-> m, seen |-> hardAICall(s, aiPlayerIndex).seen] : m \in easyAI(s)}

\* what a call of hardAI may return: the loops of hardAI and minimax read
\* nothing but their arguments, so there is one possibility
hardAIReturns(s, aiPlayerIndex) == {hardAICall(s, aiPlayerIndex)}

HardAI ==
  /\ fn = NoFn
  /\ Len(getAvailableLines(state)) <= MaxSearchLines
  /\ \E r \in hardAIReturns(state, AI_PLAYER_INDEX) :
       fn' = [op |-> "hardAI", result |-> r.move, seen |-> r.seen]
  /\ UNCHANGED <<state, call, nAccepted>>
  /\ UNCHANGED serverVars

AINext == PlayMove \/ EasyAI \/ MediumAI \/ HardAI

SpecAI == FnInit /\ [][AINext]_vars

\* hardAI called as the hook useAI calls it: for the state whose current
\* player is the AI, here with enough lines left for a loop of minimax to break
HardAIOnTurn ==
  /\ fn = NoFn
  /\ ~state.gameOver
  /\ state.currentPlayer = AI_PLAYER_INDEX
  /\ Len(getAvailableLines(state)) <= MaxPrunedLines
  /\ \E r \in hardAIReturns(state, AI_PLAYER_INDEX) :
       fn' = [op |-> "hardAI", result |-> r.move, seen |-> r.seen]
  /\ UNCHANGED <<state, call, nAccepted>>
  /\ UNCHANGED serverVars

SpecPrune == FnInit /\ [][PlayMove \/ HardAIOnTurn]_vars

\* ---- hardAI on boards with more lines left than it searches in full --------
\* Next to the game on the smallest grid, a game on the default grid is
\* played in which every move draws the first line of getAvailableLines, down
\* to the first board with more than FULL_SEARCH_LINES lines left that hardAI
\* is applied to: the one with FULL_SEARCH_LINES + 1 of them.

DeepInit ==
  /\ state \in {createInitialState(GridSize, MIN_PLAYERS),
                createInitialState(DEFAULT_GRID_SIZE, MIN_PLAYERS)}
  /\ call = NoCall
  /\ nAccepted = 0
  /\ fn = NoFn
  /\ ServerOff

PlaySmall == state.gridSize = GridSize /\ PlayMove

PlayFirstLine ==
  /\ fn = NoFn
  /\ state.gridSize = DEFAULT_GRID_SIZE
  /\ Len(getAvailableLines(state)) > FULL_SEARCH_LINES + 1
  /\ state' = applyMove(state, getAvailableLines(state)[1], state.currentPlayer)
  /\ call' = [made |-> TRUE, accepted |-> TRUE, playerIndex |-> state.currentPlayer,
              claimed |-> (DOMAIN state'.boxes) \ (DOMAIN state.boxes)]
  /\ nAccepted' = nAccepted + 1
  /\ fn' = NoFn
  /\ UNCHANGED serverVars

HardAIDeep ==
  /\ fn = NoFn
  /\ Len(getAvailableLines(state)) = FULL_SEARCH_LINES + 1
  /\ \E r \in hardAIReturns(state, AI_PLAYER_INDEX) :
       fn' = [op |-> "hardAI", result |-> r.move, seen |-> r.seen]
  /\ UNCHANGED <<state, call, nAccepted>>
  /\ UNCHANGED serverVars

DeepNext == PlaySmall \/ PlayFirstLine \/ HardAI \/ HardAIDeep

SpecDeep == DeepInit /\ [][DeepNext]_vars

\* ---- GameBoard in mode 'ai' --------------------------------------------------
\* `state` is the state of useGameState, created by createInitialState for
\* the grid size of the route; gameStarted is true from the start in this
\* mode.  `fn` holds the hook useAI: its difficulty, and whether its effect
\* has yet to run for the current state (it runs after mounting and after
\* every change of the state, since computeMove is among its dependencies).

Difficulties == {"easy", "medium", "hard"}

VsAIInit ==
  /\ \E gridSize \in GridSizes :
       state = createInitialState(gridSize, DEFAULT_PLAYERS)
  /\ call = NoCall
  /\ nAccepted = 0
  /\ \E difficulty \in Difficulties :
       fn = [op |-> "useAI", difficulty |-> difficulty, effect |-> "pending"]
  /\ ServerOff

\* `canInteract` in mode 'ai': the human is always player 0
canInteract == ~state.gameOver /\ state.currentPlayer = 0

\* the switch of computeMove
Strategy(difficulty, s) ==
  CASE difficulty = "easy" -> easyAI(s)
    [] difficulty = "medium" -> mediumAI(s)
    [] difficulty = "hard" -> {hardAI(s, AI_PLAYER_INDEX)}

\* a click on a line that is clickable (canInteract && !taken):
\* handleLineClick calls makeLocalMove(normalized, state.currentPlayer)
HandleLineClick ==
  /\ canInteract
  /\ \E i \in 1..Len(getAvailableLines(state)) :
       LET next == applyMove(state, normalizeLine(getAvailableLines(state)[i]),
                             state.currentPlayer)
       IN /\ next # NullState
          /\ state' = next
          /\ call' = [made |-> TRUE, accepted |-> TRUE, playerIndex |-> state.currentPlayer,
                      claimed |-> (DOMAIN next.boxes) \ (DOMAIN state.boxes)]
          /\ nAccepted' = nAccepted + 1
          /\ fn' = [fn EXCEPT !.effect = "pending"]
          /\ UNCHANGED serverVars

\* computeMove followed by aiMoveHandler: the strategy's move, if any, goes
\* to makeLocalMove(normalized, state.currentPlayer)
ComputeMove ==
  \E move \in Strategy(fn.difficulty, state) :
    LET next == IF move = NoLine THEN NullState
                ELSE applyMove(state, normalizeLine(move), state.currentPlayer)
    IN IF next = NullState
         THEN /\ UNCHANGED <<state, call, nAccepted>>
              /\ fn' = [fn EXCEPT !.effect = "ran"]
         ELSE /\ state' = next
              /\ call' = [made |-> TRUE, accepted |-> TRUE,
                          playerIndex |-> state.currentPlayer,
                          claimed |-> (DOMAIN next.boxes) \ (DOMAIN state.boxes)]
              /\ nAccepted' = nAccepted + 1
              /\ fn' = [fn EXCEPT !.effect = "pending"]

\* the effect of useAI, with enabled = (mode === 'ai' && gameStarted) = true.
\* Past its four early returns it sets the timer of AI_MOVE_DELAY_MS for
\* computeMove; no click is accepted while the AI is to move, so the timer's
\* callback is taken together with the effect here.
UseAIEffect ==
  /\ fn.op = "useAI"
  /\ fn.effect = "pending"
  /\ IF state.gameOver \/ state.currentPlayer # AI_PLAYER_INDEX \/ ~state.started
       THEN /\ UNCHANGED <<state, call, nAccepted>>
            /\ fn' = [fn EXCEPT !.effect = "ran"]
       ELSE ComputeMove
  /\ UNCHANGED serverVars

VsAINext == HandleLineClick \/ UseAIEffect

\* React runs a pending effect after every render
SpecVsAI == VsAIInit /\ [][VsAINext]_vars /\ WF_vars(UseAIEffect)

\* ---- checkRateLimit applied on its own ---------------------------------------
\* `fn` holds the last call (socket, event, time, result) and the admitted
\* calls so far, each with its socket, event and time, as a bag.

\* the times around the ends of the two windows that start at 0
Instants ==
  {0} \cup ((MOVE_WINDOW_MS - Margin)..MOVE_WINDOW_MS)
      \cup ((ROOM_WINDOW_MS - Margin)..ROOM_WINDOW_MS)

\* two sockets call, the second until it was admitted once
LimiterSockets == {"s1", "s2"}

MayCall(socketId) ==
  /\ BagCardinality(fn.admitted) < MaxCalls
  /\ socketId = "s1" \/ \A a \in BagToSet(fn.admitted) : a.socketId # socketId

\* an event without a case in the switch stands for all of them
LimiterEvents == LimitedEvents \cup {"joinRoom"}

\* an event is sent at the start of its window, at the end and shortly before
InstantsOf(event) ==
  IF event \in LimitedEvents
    THEN {0} \cup ((WindowMs(event) - Margin)..WindowMs(event))
    ELSE Instants

LimiterInit ==
  /\ state = createInitialState(GridSize, MIN_PLAYERS)
  /\ call = NoCall
  /\ nAccepted = 0
  /\ fn = [op |-> "checkRateLimit", admitted |-> EmptyBag]
  /\ ServerOff

CheckRateLimit ==
  /\ \E socketId \in {s \in LimiterSockets : MayCall(s)},
        event \in {e \in LimiterEvents : now \in InstantsOf(e)} :
       LET r == checkRateLimit(buckets, socketId, event, now)
           this == [socketId |-> socketId, event |-> event, at |-> now]
       IN /\ buckets' = r.buckets
          /\ fn' = [op |-> "checkRateLimit", last |-> this, allowed |-> r.allowed,
                    admitted |-> IF r.allowed THEN fn.admitted (+) SetToBag({this})
                                 ELSE fn.admitted]
  /\ UNCHANGED <<state, call, nAccepted, room, sockets, now, lastCheck, emitted>>

\* Date.now() does not go back
Advance ==
  /\ \E t \in Instants : t > now /\ now' = t
  /\ UNCHANGED <<state, call, nAccepted, fn, room, sockets, buckets, lastCheck, emitted>>

LimiterNext == CheckRateLimit \/ Advance

SpecLimiter == LimiterInit /\ [][LimiterNext]_vars

\* ---- the server: socket handlers ---------------------------------------------
\* One room is followed: a valid createRoom is sent while the RoomManager
\* holds no room.  socket.io gives every connection a new id; a client that
\* comes back does so on a new connection.  `emitted` is what the handler
\* that ran last emitted: to the sender (socket.emit) or to the room
\* (io.to(roomId).emit).

Out(to, event, tag) == [to |-> to, event |-> event, tag |-> tag]

Emitted(handler, socketId, out) == [handler |-> handler, socket |-> socketId, out |-> out]

\* the handler answered the sender with `error` or `invalidMove` and nothing else
IsRejection(e) ==
  Len(e.out) = 1 /\ e.out[1].to = "sender" /\ e.out[1].event \in {"error", "invalidMove"}

\* `fn` counts the events the server rejected
Counted ==
  /\ IF IsRejection(emitted')
       THEN fn.rejected < MaxRejected /\ fn' = [fn EXCEPT !.rejected = @ + 1]
       ELSE fn' = fn
  /\ UNCHANGED <<state, call, nAccepted>>

\* a string that is no UUID
MalformedRoomId == "not a uuid"

RoomIdInputs == {RoomId, UnknownRoomId, MalformedRoomId}

isValidUUID(str) == str \in {RoomId, UnknownRoomId}

\* `roomManager.getRoom(roomId)` returns a room
HasRoom(roomId) == room.exists /\ roomId = RoomId

Open == {s \in SocketIds : sockets[s] = "open"}

SocketId(i) == "s" \o ToString(i)

\* io.on('connection'): registerHandlers
Connect ==
  /\ \E i \in 1..MaxSockets :
       /\ sockets[SocketId(i)] = "new"
       /\ \A j \in 1..(i - 1) : sockets[SocketId(j)] # "new"
       /\ sockets' = [sockets EXCEPT ![SocketId(i)] = "open"]
       /\ emitted' = Emitted("connection", SocketId(i), <<>>)
  /\ UNCHANGED <<room, buckets, now, lastCheck>>
  /\ UNCHANGED gameVars

\* the payloads of createRoom: a grid size and a player count, valid or not
CreateInputs ==
  {[gridSize |-> g, maxPlayers |-> m] :
     g \in {GridSize, MAX_GRID_SIZE + 1}, m \in MIN_PLAYERS..MaxRoomPlayers}

validateCreateRoom(data) ==
  isValidGridSize(data.gridSize) /\ isValidPlayerCount(data.maxPlayers)

CreateRoomChecked(socketId, data, allowed) ==
  IF ~allowed
    THEN /\ room' = room
         /\ emitted' = Emitted("createRoom", socketId,
                               <<Out("sender", "error", "RATE_LIMITED")>>)
  ELSE IF ~validateCreateRoom(data)
    THEN /\ room' = room
         /\ emitted' = Emitted("createRoom", socketId,
                               <<Out("sender", "error", "VALIDATION_ERROR")>>)
  ELSE /\ room' = createRoom(data.gridSize, data.maxPlayers, PlayerInfoOf(socketId))
       /\ emitted' = Emitted("createRoom", socketId,
                             <<Out("sender", "roomCreated", ""),
                               Out("room", "waitingForPlayers", "")>>)

\* the createRoom handler runs for the event `data` of socketId
CreateRoomSent(socketId, data) ==
  LET r == checkRateLimit(buckets, socketId, "createRoom", now)
  IN /\ buckets' = r.buckets
     /\ CreateRoomChecked(socketId, data, r.allowed)

\* socket.on('createRoom')
CreateRoom ==
  /\ ~room.exists
  /\ \E socketId \in Open, data \in CreateInputs : CreateRoomSent(socketId, data)
  /\ UNCHANGED <<sockets, now, lastCheck>>
  /\ Counted

JoinRoomJoined(socketId, result) ==
  IF ~result.success
    THEN /\ room' = room
         /\ emitted' = Emitted("joinRoom", socketId, <<Out("sender", "error", "JOIN_FAILED")>>)
    ELSE /\ room' = result.room
         /\ emitted' = Emitted("joinRoom", socketId,
                               <<Out("room", "waitingForPlayers", "")>>)

\* socket.on('joinRoom')
JoinRoom ==
  /\ \E socketId \in Open, roomId \in RoomIdInputs :
       IF ~isValidUUID(roomId)
         THEN /\ room' = room
              /\ emitted' = Emitted("joinRoom", socketId,
                                    <<Out("sender", "error", "VALIDATION_ERROR")>>)
         ELSE JoinRoomJoined(socketId, joinRoom(room, roomId, PlayerInfoOf(socketId)))
  /\ UNCHANGED <<sockets, buckets, now, lastCheck>>
  /\ Counted

\* the playerIds a rejoinRoom payload may carry: the id of a connection, or ""
PlayerIdInputs == SocketIds \cup {""}

RejoinRoomRejoined(socketId, result) ==
  IF ~result.success
    THEN /\ room' = room
         /\ emitted' = Emitted("rejoinRoom", socketId,
                               <<Out("sender", "error", result.error)>>)
    ELSE /\ room' = result.room
         /\ emitted' = Emitted("rejoinRoom", socketId,
                               <<Out("room", "playerReconnected", ToString(result.playerIndex)),
                                 Out("sender", "updateGame", "")>>)

\* socket.on('rejoinRoom')
RejoinRoom ==
  /\ \E socketId \in Open, roomId \in RoomIdInputs, playerId \in PlayerIdInputs :
       IF ~isValidUUID(roomId) \/ playerId = ""
         THEN /\ room' = room
              /\ emitted' = Emitted("rejoinRoom", socketId,
                                    <<Out("sender", "error", "VALIDATION_ERROR")>>)
         ELSE RejoinRoomRejoined(socketId, rejoinRoom(room, roomId, playerId, socketId))
  /\ UNCHANGED <<sockets, buckets, now, lastCheck>>
  /\ Counted

\* socket.on('startGame')
StartGame ==
  /\ \E socketId \in Open, roomId \in RoomIdInputs :
       IF ~isValidUUID(roomId)
         THEN /\ room' = room
              /\ emitted' = Emitted("startGame", socketId,
                                    <<Out("sender", "error", "VALIDATION_ERROR")>>)
       ELSE IF ~HasRoom(roomId)
         THEN /\ room' = room
              /\ emitted' = Emitted("startGame", socketId,
                                    <<Out("sender", "error", "NOT_FOUND")>>)
       ELSE IF room.creator # socketId
         THEN /\ room' = room
              /\ emitted' = Emitted("startGame", socketId,
                                    <<Out("sender", "error", "UNAUTHORIZED")>>)
       ELSE IF Len(room.players) < 2
         THEN /\ room' = room
              /\ emitted' = Emitted("startGame", socketId,
                                    <<Out("sender", "error", "NOT_ENOUGH_PLAYERS")>>)
       ELSE /\ room' = [room EXCEPT !.state.started = TRUE]
            /\ emitted' = Emitted("startGame", socketId, <<Out("room", "startGame", "")>>)
  /\ UNCHANGED <<sockets, buckets, now, lastCheck>>
  /\ Counted

\* a payload of makeMove that is no object
NoObject == [object |-> FALSE]

\* the lines a makeMove payload carries: the first available line, the line
\* drawn first among those of the grid, and a diagonal
LinesSent(s) ==
  LET available == getAvailableLines(s)
      all == HorizontalLines(s.gridSize) \o VerticalLines(s.gridSize)
      Taken(line) == lineToKey(line) \in BagToSet(s.lineSet)
      taken == SelectSeq(all, Taken)
  IN (IF Len(available) > 0 THEN {available[1]} ELSE {})
       \cup (IF Len(taken) > 0 THEN {taken[1]} ELSE {})
       \cup {<<0, 0, 1, 1>>}

\* the lines sent when the roomId names no room
LinesSentNowhere == {<<0, 0, 1, 0>>}

MoveInputs ==
  {NoObject}
    \cup {[object |-> TRUE, roomId |-> roomId, line |-> line] :
            roomId \in RoomIdInputs \ {RoomId}, line \in LinesSentNowhere}
    \cup (IF room.exists
            THEN {[object |-> TRUE, roomId |-> RoomId, line |-> line] :
                    line \in LinesSent(room.state)}
            ELSE {})

\* validateMakeMove(data, gridSize), data an object whose line is an array of
\* four integers
validateMakeMove(data, gridSize) == isValidUUID(data.roomId) /\ isValidLine(data.line, gridSize)

\* the handler returns after `socket.emit('invalidMove', ...)`
InvalidMove(r, reason) == [room |-> r, out |-> <<Out("sender", "invalidMove", reason)>>]

\* the move is taken whether the game was started or not
NotStarted_Unchecked(s) == FALSE

\* `!room.state.started`
NotStarted(s) == ~s.started

\* `roomManager.updateState(roomId, newState)` and the broadcasts
MoveApplied(r, newState) ==
  IF newState = NullState THEN InvalidMove(r, "LINE_TAKEN")
  ELSE [ room |-> [r EXCEPT !.state = newState],
         out  |-> IF newState.gameOver
                    THEN <<Out("room", "updateGame", ""), Out("room", "gameOver", "")>>
                    ELSE <<Out("room", "updateGame", "")>> ]

\* the move of a player of the room goes to applyMove whoever's turn it is
MoveByPlayer_TurnUnchecked(r, data, playerIndex) ==
  IF playerIndex = -1 THEN InvalidMove(r, "NOT_YOUR_TURN")
  ELSE MoveApplied(r, applyMove(r.state, normalizeLine(data.line), playerIndex))

\* the turn validation of the makeMove handler, then applyMove
MoveByPlayer(r, data, playerIndex) ==
  IF playerIndex = -1 \/ r.state.currentPlayer # playerIndex
    THEN InvalidMove(r, "NOT_YOUR_TURN")
    ELSE MoveApplied(r, applyMove(r.state, normalizeLine(data.line), playerIndex))

\* a finished game is not told from one under way
makeMove_OverUnchecked(r, socketId, data, allowed) ==
  IF ~allowed THEN InvalidMove(r, "RATE_LIMITED")
  ELSE IF ~data.object THEN InvalidMove(r, "INVALID_LINE")
  ELSE IF ~(r.exists /\ data.roomId = RoomId)
    THEN [room |-> r, out |-> <<Out("sender", "error", "NOT_FOUND")>>]
  ELSE IF ~validateMakeMove(data, r.state.gridSize) THEN InvalidMove(r, "INVALID_LINE")
  ELSE IF NotStarted(r.state) THEN InvalidMove(r, "GAME_NOT_STARTED")
  ELSE MoveByPlayer(r, data, findIndex(r.players, socketId))

\* the makeMove handler run by socketId on `data`, the rate limiter having
\* answered `allowed`, with r the room of the RoomManager: the room after it
\* and what it emits
makeMove(r, socketId, data, allowed) ==
  IF ~allowed THEN InvalidMove(r, "RATE_LIMITED")
  ELSE IF ~data.object THEN InvalidMove(r, "INVALID_LINE")
  ELSE IF ~(r.exists /\ data.roomId = RoomId)
    THEN [room |-> r, out |-> <<Out("sender", "error", "NOT_FOUND")>>]
  ELSE IF ~validateMakeMove(data, r.state.gridSize) THEN InvalidMove(r, "INVALID_LINE")
  ELSE IF NotStarted(r.state) THEN InvalidMove(r, "GAME_NOT_STARTED")
  ELSE IF r.state.gameOver THEN InvalidMove(r, "GAME_OVER")
  ELSE MoveByPlayer(r, data, findIndex(r.players, socketId))

\* the makeMove handler runs for the event `data` of socketId
MoveSent(socketId, data) ==
  LET r == checkRateLimit(buckets, socketId, "makeMove", now)
      result == makeMove(room, socketId, data, r.allowed)
  IN /\ buckets' = r.buckets
     /\ room' = result.room
     /\ emitted' = Emitted("makeMove", socketId, result.out)

\* socket.on('makeMove')
MakeMove ==
  /\ \E socketId \in Open, data \in MoveInputs : MoveSent(socketId, data)
  /\ UNCHANGED <<sockets, now, lastCheck>>
  /\ Counted

DisconnectHandled(socketId, result) ==
  IF result.playerIndex = Threw
    THEN /\ room' = room
         /\ buckets' = buckets
         /\ emitted' = Emitted("disconnect", socketId, <<Out("nobody", "TypeError", "")>>)
    ELSE /\ room' = result.room
         /\ buckets' = cleanupRateLimit(buckets, socketId)
         /\ emitted' = Emitted("disconnect", socketId,
              IF ~result.found THEN <<>>
              ELSE IF result.room.state.started /\ ~result.room.state.gameOver
                THEN <<Out("room", "playerDisconnected", ToString(result.playerIndex))>>
                ELSE <<Out("room", "waitingForPlayers", "")>>)

\* socket.on('disconnect')
Disconnect ==
  /\ \E socketId \in Open :
       /\ sockets' = [sockets EXCEPT ![socketId] = "closed"]
       /\ DisconnectHandled(socketId, handleDisconnect(room, socketId, now))
  /\ UNCHANGED <<now, lastCheck>>
  /\ UNCHANGED gameVars

\* the interval of index.ts is due: a period has passed since its last run
CheckDue == now - lastCheck >= RECONNECT_CHECK_MS

\* the callback of the interval that runs checkReconnectionTimeouts
CheckReconnectionTimeouts ==
  /\ CheckDue
  /\ lastCheck' = now
  /\ room' = checkReconnectionTimeouts(room, now)
  /\ emitted' = Emitted("interval", "",
                        IF ExpiredIds(room, now) = {} THEN <<>>
                        ELSE <<Out("room", "playerForfeited", "")>>)
  /\ UNCHANGED <<sockets, buckets, now>>
  /\ UNCHANGED gameVars

\* ---- the server at work -------------------------------------------------------
\* Connections are made, a room is created, joined, started, played in, left
\* and rejoined, while Date.now() advances by whole windows of the move limit
\* and stays below the first run of the reconnection timeout checker.

ServerInit ==
  /\ state = createInitialState(GridSize, MIN_PLAYERS)
  /\ call = NoCall
  /\ nAccepted = 0
  /\ fn = [op |-> "server", rejected |-> 0]
  /\ ServerOff

\* a socket has had as many moves admitted as a window allows
Throttled ==
  \E s \in DOMAIN buckets :
    Len(InWindow(Timestamps(buckets, s, "makeMove"), now, MOVE_WINDOW_MS))
      >= RATE_LIMIT_MOVES_PER_SECOND

\* a window of the move limit passes; the clock is followed from the moment
\* a socket is throttled
Tick ==
  /\ now > 0 \/ Throttled
  /\ now < MaxTicks * MOVE_WINDOW_MS
  /\ now' = now + MOVE_WINDOW_MS
  /\ UNCHANGED <<room, sockets, buckets, lastCheck, emitted>>
  /\ UNCHANGED gameVars

ServerNext ==
  Connect \/ CreateRoom \/ JoinRoom \/ StartGame \/ MakeMove \/ Disconnect \/ RejoinRoom \/ Tick

SpecServer == ServerInit /\ [][ServerNext]_vars

\* ---- the server and the reconnection timeout checker ---------------------------
\* No move is sent.  From the first disconnect of a game in progress on, the
\* clock is followed: events arrive in the millisecond the interval's callback
\* is due (before it or after it) and one second later.

SomeoneAway == room.exists /\ DOMAIN room.disconnectedPlayers # {}

Wait ==
  /\ now > 0 \/ SomeoneAway
  /\ ~CheckDue
  /\ now < MaxChecks * RECONNECT_CHECK_MS
  /\ now' \in {lastCheck + RECONNECT_CHECK_MS} \cup
             (IF now = lastCheck THEN {now + MS_PER_SECOND} ELSE {})
  /\ UNCHANGED <<room, sockets, buckets, lastCheck, emitted>>
  /\ UNCHANGED gameVars

ReconnectNext ==
  \/ Connect
  \/ CreateRoom
  \/ JoinRoom
  \/ StartGame
  \/ Disconnect
  \/ RejoinRoom
  \/ CheckReconnectionTimeouts
  \/ Wait

SpecReconnect == ServerInit /\ [][ReconnectNext]_vars

\* ---- the server and rooms of any size ----------------------------------------------
\* One room is followed, created for any valid number of players; the creator
\* may start the game before the room is full.  The clients of a game under
\* way send the first available line, each when its turn has come.

\* the payloads of createRoom, maxPlayers any valid count
CreateInputsAnySize ==
  {[gridSize |-> g, maxPlayers |-> m] :
     g \in {GridSize, MAX_GRID_SIZE + 1}, m \in MIN_PLAYERS..MaxPlayerCount}

\* socket.on('createRoom')
CreateRoomAnySize ==
  /\ ~room.exists
  /\ \E socketId \in Open, data \in CreateInputsAnySize : CreateRoomSent(socketId, data)
  /\ UNCHANGED <<sockets, now, lastCheck>>
  /\ Counted

\* the makeMove handler runs for the player whose turn it is
TurnSent ==
  /\ room.exists /\ room.state.started /\ ~room.state.gameOver
  /\ \E socketId \in Open :
       /\ findIndex(room.players, socketId) = room.state.currentPlayer
       /\ MoveSent(socketId, [object |-> TRUE, roomId |-> RoomId,
                               line |-> getAvailableLines(room.state)[1]])

\* socket.on('makeMove')
MakeMoveOnTurn ==
  /\ TurnSent
  /\ UNCHANGED <<sockets, now, lastCheck>>
  /\ Counted

TurnsNext ==
  Connect \/ CreateRoomAnySize \/ JoinRoom \/ StartGame \/ MakeMoveOnTurn \/ Disconnect \/ Tick

SpecTurns == ServerInit /\ [][TurnsNext]_vars

\* ---- the server with several rooms ---------------------------------------------------
\* Here `room` is the Map `rooms` of the RoomManager.  Sockets connect,
\* create rooms, join them and disconnect; no game is started.

\* the keys uuidv4() gives
RoomIds == {"room " \o ToString(i) : i \in 1..MaxRoomsHeld}

RoomsInit ==
  /\ state = createInitialState(GridSize, MIN_PLAYERS)
  /\ call = NoCall
  /\ nAccepted = 0
  /\ fn = [op |-> "server", rejected |-> 0]
  /\ room = <<>>
  /\ sockets = [s \in SocketIds |-> "new"]
  /\ buckets = NoBuckets
  /\ now = 0
  /\ lastCheck = 0
  /\ emitted = NoEmit

\* socket.on('createRoom'): the handler adds a Room under a new key
CreateRoomAmong ==
  /\ Len(room) < MaxRoomsHeld
  /\ \E socketId \in Open, data \in CreateInputs :
       LET r == checkRateLimit(buckets, socketId, "createRoom", now)
           roomId == CHOOSE id \in RoomIds : RoomOf(room, id) = NoRoom
       IN /\ buckets' = r.buckets
          /\ IF ~r.allowed
               THEN /\ room' = room
                    /\ emitted' = Emitted("createRoom", socketId,
                                          <<Out("sender", "error", "RATE_LIMITED")>>)
             ELSE IF ~validateCreateRoom(data)
               THEN /\ room' = room
                    /\ emitted' = Emitted("createRoom", socketId,
                                          <<Out("sender", "error", "VALIDATION_ERROR")>>)
             ELSE /\ room' = Append(room, WithRoomId(createRoom(data.gridSize, data.maxPlayers,
                                                                PlayerInfoOf(socketId)), roomId))
                  /\ emitted' = Emitted("createRoom", socketId,
                                        <<Out("sender", "roomCreated", roomId),
                                          Out("room", "waitingForPlayers", roomId)>>)
  /\ UNCHANGED <<sockets, now, lastCheck>>
  /\ Counted

\* socket.on('joinRoom'), the roomId a UUID
JoinRoomAmong ==
  /\ \E socketId \in Open, roomId \in RoomIds :
       LET result == joinRoom(RoomOf(room, roomId), RoomId, PlayerInfoOf(socketId))
       IN IF ~result.success
            THEN /\ room' = room
                 /\ emitted' = Emitted("joinRoom", socketId,
                                       <<Out("sender", "error", "JOIN_FAILED")>>)
            ELSE /\ room' = WithRoom(room, result.room)
                 /\ emitted' = Emitted("joinRoom", socketId,
                                       <<Out("room", "waitingForPlayers", roomId)>>)
  /\ UNCHANGED <<sockets, buckets, now, lastCheck>>
  /\ Counted

\* socket.on('disconnect')
DisconnectAmong ==
  /\ \E socketId \in Open :
       LET result == handleDisconnectFrom(room, 1, socketId, now)
       IN /\ sockets' = [sockets EXCEPT ![socketId] = "closed"]
          /\ room' = result.rooms
          /\ buckets' = cleanupRateLimit(buckets, socketId)
          /\ emitted' = Emitted("disconnect", socketId,
                                IF result.found THEN <<Out("room", "waitingForPlayers", "")>>
                                ELSE <<>>)
  /\ UNCHANGED <<now, lastCheck>>
  /\ UNCHANGED gameVars

RoomsNext == Connect \/ CreateRoomAmong \/ JoinRoomAmong \/ DisconnectAmong

SpecRooms == RoomsInit /\ [][RoomsNext]_vars

\* ---- the server and the room cleanup ---------------------------------------------
\* One room is followed from its creation to its removal by the cleanup timer
\* of the RoomManager.  The clients of a game under way send the first
\* available line, in turn, as soon as the rate limiter admits it.  The clock
\* is read when the cleanup timer fires, a period after its last run
\* (`lastCheck`); the events between two runs bear the time of the earlier.
\* `fn` records when the game ended.

CleanupInit ==
  /\ state = createInitialState(GridSize, MIN_PLAYERS)
  /\ call = NoCall
  /\ nAccepted = 0
  /\ fn = [op |-> "cleanup", rejected |-> 0, created |-> 0, endedAt |-> -1]
  /\ ServerOff

\* socket.on('createRoom'), the room stored with its createdAt
CreateRoomAt ==
  /\ ~room.exists
  /\ fn.created < MaxRooms
  /\ \E socketId \in Open, data \in CreateInputs :
       LET r == checkRateLimit(buckets, socketId, "createRoom", now)
       IN /\ buckets' = r.buckets
          /\ IF r.allowed /\ validateCreateRoom(data)
               THEN /\ room' = WithCreatedAt(createRoom(data.gridSize, data.maxPlayers,
                                                        PlayerInfoOf(socketId)), now)
                    /\ emitted' = Emitted("createRoom", socketId,
                                          <<Out("sender", "roomCreated", ""),
                                            Out("room", "waitingForPlayers", "")>>)
                    /\ fn' = [fn EXCEPT !.created = @ + 1]
                    /\ UNCHANGED <<state, call, nAccepted>>
               ELSE /\ CreateRoomChecked(socketId, data, r.allowed)
                    /\ Counted
  /\ UNCHANGED <<sockets, now, lastCheck>>

\* socket.on('makeMove') for the event of the player whose turn it is
MakeMoveInTurn ==
  /\ TurnSent
  /\ fn' = [fn EXCEPT !.endedAt = IF room'.state.gameOver THEN now ELSE @]
  /\ UNCHANGED <<sockets, now, lastCheck, state, call, nAccepted>>

\* the callback of `setInterval(() => this.cleanupExpiredRooms(), ...)`, run
\* a period after its last run
CleanupExpiredRooms ==
  /\ room.exists
  /\ ~room.state.started \/ room.state.gameOver \/ Throttled
  /\ now < MaxMinutes * ROOM_CLEANUP_INTERVAL_MS
  /\ now' = now + ROOM_CLEANUP_INTERVAL_MS
  /\ lastCheck' = now'
  /\ room' = cleanupExpiredRooms(room, now')
  /\ emitted' = Emitted("cleanup", "", <<>>)
  /\ UNCHANGED <<sockets, buckets>>
  /\ UNCHANGED gameVars

CleanupNext ==
  \/ Connect
  \/ CreateRoomAt
  \/ JoinRoom
  \/ StartGame
  \/ MakeMoveInTurn
  \/ CleanupExpiredRooms

SpecCleanup == CleanupInit /\ [][CleanupNext]_vars

\* ---- the hook useGameState under GameBoard in mode 'local' -------------------
\* `state` is the state React holds for the hook: the value of the last
\* setState, which the next render shows.  `fn` holds the render whose
\* callbacks the page has: the state that render was given (makeLocalMove and
\* handleLineClick close over it), the number of callbacks of that render
\* that have run, and the edges for which makeLocalMove has returned true
\* since that render.  React renders some time after a setState; nothing in
\* the hook makes a callback wait for it.

HookInit ==
  /\ state = createInitialState(GridSize, DEFAULT_PLAYERS)
  /\ call = NoCall
  /\ nAccepted = 0
  /\ fn = [op |-> "useGameState", rendered |-> state, calls |-> 0, accepted |-> {}]
  /\ ServerOff

\* makeLocalMove of the render that was given the state `captured`: the state
\* it hands to setState, or NullState where it returns false
makeLocalMove(captured, line, playerIndex) ==
  applyMove(captured, normalizeLine(line), playerIndex)

\* a click on a line which the render shows as clickable (canInteract, which
\* is true for every player in mode 'local' until the game is over, and
\* !taken): handleLineClick calls makeLocalMove(normalized,
\* state.currentPlayer) with the state of its render
LineClicked ==
  /\ fn.op = "useGameState"
  /\ fn.calls < MaxBatched
  /\ BagCardinality(fn.rendered.lines) < MaxRenderedLines
  /\ ~fn.rendered.gameOver
  /\ \E i \in 1..Len(getAvailableLines(fn.rendered)) :
       LET line == normalizeLine(getAvailableLines(fn.rendered)[i])
           newState == makeLocalMove(fn.rendered, line, fn.rendered.currentPlayer)
       IN IF newState = NullState
            THEN /\ fn' = [fn EXCEPT !.calls = @ + 1]
                 /\ call' = [made |-> TRUE, accepted |-> FALSE,
                             playerIndex |-> fn.rendered.currentPlayer, claimed |-> {}]
                 /\ UNCHANGED <<state, nAccepted>>
            ELSE /\ state' = newState
                 /\ fn' = [fn EXCEPT !.calls = @ + 1, !.accepted = @ \cup {line}]
                 /\ call' = [made |-> TRUE, accepted |-> TRUE,
                             playerIndex |-> fn.rendered.currentPlayer,
                             claimed |-> (DOMAIN newState.boxes) \ (DOMAIN fn.rendered.boxes)]
                 /\ nAccepted' = nAccepted + 1
  /\ UNCHANGED serverVars

\* React renders GameBoard again after a setState: the hook returns the state
\* last set, and the callbacks are made anew over it
Render ==
  /\ fn.op = "useGameState"
  /\ fn.calls > 0
  /\ fn' = [fn EXCEPT !.rendered = state, !.calls = 0, !.accepted = {}]
  /\ call' = NoCall
  /\ UNCHANGED <<state, nAccepted>>
  /\ UNCHANGED serverVars

HookNext == LineClicked \/ Render

SpecHook == HookInit /\ [][HookNext]_vars

\* ---- a strategy applied twice to the same state ----------------------------
\* After a strategy has returned, it is called again with the same arguments
\* and the second result is recorded next to the first.

HardAIAgain ==
  /\ fn.op = "hardAI"
  /\ "again" \notin DOMAIN fn
  /\ \E r \in hardAIReturns(state, AI_PLAYER_INDEX) :
       fn' = [op |-> "hardAI", result |-> fn.result, seen |-> fn.seen, again |-> r.move]
  /\ UNCHANGED <<state, call, nAccepted>>
  /\ UNCHANGED serverVars

EasyAIAgain ==
  /\ fn.op = "easyAI"
  /\ "again" \notin DOMAIN fn
  /\ Len(getAvailableLines(state)) <= MaxSearchLines
  /\ \E move \in easyAI(state) :
       fn' = [op |-> "easyAI", result |-> fn.result, again |-> move]
  /\ UNCHANGED <<state, call, nAccepted>>
  /\ UNCHANGED serverVars

TwiceNext == PlayMove \/ EasyAI \/ HardAI \/ HardAIAgain \/ EasyAIAgain

SpecTwice == FnInit /\ [][TwiceNext]_vars

\* the lines of the grid of the model, in the order of getAvailableLines
AllLines == HorizontalLines(GridSize) \o VerticalLines(GridSize)

\* the unit segments around the grid that isValidLine does not accept
OutsideLines ==
  {normalizeLine(l) : l \in {line \in LineInputs :
     Abs(line[3] - line[1]) + Abs(line[4] - line[2]) = 1 /\ ~isValidLine(line, GridSize)}}

\* the drawn sets findCompletedBoxes is given: any lines of the grid, alone or
\* together with the segments around the grid
DrawnInputs ==
  {inside \cup outside : inside \in SUBSET {AllLines[i] : i \in DOMAIN AllLines},
                         outside \in {{}, OutsideLines}}

\* findCompletedBoxes(line, gridSize, lineSet) for a line of the grid, in
\* either direction, that is in the drawn set
FindCompletedBoxes ==
  /\ fn = NoFn
  /\ \E drawn \in DrawnInputs :
       \E e \in {l \in drawn : isValidLine(l, GridSize)} :
         \E line \in {e, <<e[3], e[4], e[1], e[2]>>} :
           fn' = [op |-> "findCompletedBoxes", line |-> line, drawn |-> drawn,
                  result |-> findCompletedBoxes(line, GridSize, {lineToKey(l) : l \in drawn})]
  /\ UNCHANGED <<state, call, nAccepted>>
  /\ UNCHANGED serverVars

SpecBoxes == FnInit /\ [][FindCompletedBoxes]_vars

\* ---- vocabulary of the properties -----------------------------------------
\* (stated on grid coordinates and on the tuples kept in state.lines, not on
\* the string keys)

\* the normalized lines drawn so far
Drawn(s) == BagToSet(s.lines)

\* the boxes of the grid, by their top-left dot
Boxes(gridSize) == (0..(gridSize - 2)) \X (0..(gridSize - 2))

\* the four sides of box b, smaller dot first
Sides(b) ==
  { <<b[1], b[2], b[1] + 1, b[2]>>, <<b[1], b[2] + 1, b[1] + 1, b[2] + 1>>,
    <<b[1], b[2], b[1], b[2] + 1>>, <<b[1] + 1, b[2], b[1] + 1, b[2] + 1>> }

Reverse(line) == <<line[3], line[4], line[1], line[2]>>

\* owner of box b in s, Null when it has none
Owner(s, b) == IF boxToKey(b[1], b[2]) \in DOMAIN s.boxes THEN s.boxes[boxToKey(b[1], b[2])] ELSE Null

\* boxes with all four sides drawn in t but not in s
NewlyCompleted(s, t) ==
  {b \in Boxes(s.gridSize) : Sides(b) \subseteq Drawn(t) /\ ~(Sides(b) \subseteq Drawn(s))}

RECURSIVE SumTo(_, _)
SumTo(scores, n) == IF n < 0 THEN 0 ELSE scores[n] + SumTo(scores, n - 1)

\* scores[0] + ... + scores[maxPlayers - 1]
SumScores(s) == SumTo(s.scores, s.maxPlayers - 1)

\* this step is an applyMove call that returned a state
AcceptedStep == call'.accepted /\ nAccepted' = nAccepted + 1

Diagonal(line) == line[1] # line[3] /\ line[2] # line[4]

LongerThanOne(line) == Abs(line[3] - line[1]) > 1 \/ Abs(line[4] - line[2]) > 1

ZeroLength(line) == line[1] = line[3] /\ line[2] = line[4]

OutOfGrid(line, gridSize) ==
  \/ line[1] < 0 \/ line[1] >= gridSize \/ line[2] < 0 \/ line[2] >= gridSize
  \/ line[3] < 0 \/ line[3] >= gridSize \/ line[4] < 0 \/ line[4] >= gridSize

AlreadyDrawn(drawn, line) == line \in drawn \/ Reverse(line) \in drawn

\* the rejection causes the claim lists, for a board with the lines `drawn`
ListedCause(s, drawn, line, playerIndex) ==
  \/ Diagonal(line)
  \/ LongerThanOne(line)
  \/ OutOfGrid(line, s.gridSize)
  \/ playerIndex # s.currentPlayer
  \/ s.gameOver
  \/ AlreadyDrawn(drawn, line)

Rejects(s, line, playerIndex) == applyMove(s, line, playerIndex) = NullState

\* ---- C1 -------------------------------------------------------------------

RejectedStep == call'.made /\ ~call'.accepted

NextPlayerOf(s, p) == (p + 1) % s.maxPlayers

\* C2: after every accepted applyMove by player p, currentPlayer is p if and
\* only if the move newly completed at least one box, and otherwise it is
\* (p + 1) mod playerCount; the move that ends the game included.
C2_TurnRetention ==
  [][AcceptedStep =>
       LET p == call'.playerIndex
           completed == NewlyCompleted(state, state')
       IN /\ (state'.currentPlayer = p) <=> (completed # {})
          /\ (completed = {}) => state'.currentPlayer = NextPlayerOf(state, p)]_vars

\* the move that drew the last edge: it completed a box and its player is
\* still the current player of the finished game
C2_Witness ==
  /\ state.gameOver
  /\ call.accepted
  /\ call.claimed # {}
  /\ state.currentPlayer = call.playerIndex

\* ---- C3 -------------------------------------------------------------------

BoxKeys(boxes) == {boxToKey(b[1], b[2]) : b \in boxes}

\* C3: an accepted applyMove by player p makes p the owner of exactly the
\* boxes whose fourth edge is the drawn edge (0, 1 or 2 of them), adds that
\* number to scores[p], and changes no other owner and no other score.
C3_Scoring ==
  [][AcceptedStep =>
       LET p == call'.playerIndex
           completed == NewlyCompleted(state, state')
       IN /\ Cardinality(completed) \in {0, 1, 2}
          /\ DOMAIN state'.boxes = (DOMAIN state.boxes) \cup BoxKeys(completed)
          /\ \A b \in completed : Owner(state, b) = Null /\ Owner(state', b) = p
          /\ \A k \in DOMAIN state.boxes : state'.boxes[k] = state.boxes[k]
          /\ state'.scores[p] = state.scores[p] + Cardinality(completed)
          /\ \A i \in DOMAIN state.scores : i # p => state'.scores[i] = state.scores[i]
          /\ DOMAIN state'.scores = DOMAIN state.scores]_vars

\* the last move drew the shared side of two three-sided boxes and claimed both
C3_Witness ==
  /\ call.accepted
  /\ Cardinality(call.claimed) = 2
  /\ state.scores[call.playerIndex] >= 2

\* ---- C4 -------------------------------------------------------------------

\* C4: gameOver holds exactly when the number of drawn edges is
\* 2 * gridSize * (gridSize - 1).
C4_GameOverIffFull ==
  state.gameOver <=> (Cardinality(Drawn(state)) = 2 * state.gridSize * (state.gridSize - 1))

\* a finished game, reached by accepted moves only
C4_Witness ==
  /\ state.gameOver
  /\ call.accepted
  /\ nAccepted = 2 * state.gridSize * (state.gridSize - 1)

\* ---- C5 -------------------------------------------------------------------

OwnedBy(s, i) == {k \in DOMAIN s.boxes : s.boxes[k] = i}

\* C5: the scores sum to the number of boxes that have an owner, and
\* scores[i] is the number of boxes player i owns.
C5_ScoresCountBoxes ==
  /\ SumScores(state) = Cardinality(DOMAIN state.boxes)
  /\ \A i \in DOMAIN state.scores : state.scores[i] = Cardinality(OwnedBy(state, i))

\* two players own boxes, one of them more than one
C5_Witness ==
  /\ \E i, j \in DOMAIN state.scores : i # j /\ state.scores[i] >= 2 /\ state.scores[j] >= 1
  /\ call.accepted

\* ---- C6 -------------------------------------------------------------------

\* the players whose score is strictly higher than every other player's
StrictLeaders(s) ==
  {i \in DOMAIN s.scores : \A j \in (DOMAIN s.scores) \ {i} : s.scores[i] > s.scores[j]}

\* C6: winner is null while the game is not over; when it is over, winner is
\* the player with the strictly highest score, or null when two or more
\* players share the highest score.
C6_Winner ==
  /\ ~state.gameOver => state.winner = Null
  /\ state.gameOver =>
       IF StrictLeaders(state) = {} THEN state.winner = Null
                                    ELSE state.winner \in StrictLeaders(state)

\* a finished game that is a draw although not all players are level
C6_Witness ==
  /\ state.gameOver
  /\ state.winner = Null
  /\ \E i, j \in DOMAIN state.scores : state.scores[i] < state.scores[j]

\* ---- C7 -------------------------------------------------------------------

\* C7: on the 3x3 grid with 2 players no more than 12 moves are accepted, and
\* after any 12 accepted moves the game is over with exactly 12 drawn edges,
\* the scores sum to 4, and winner is the player with strictly more boxes, or
\* null on a 2-2 split.
C7_FullGame ==
  (state.gridSize = 3 /\ state.maxPlayers = 2) =>
    /\ nAccepted <= 12
    /\ nAccepted = 12 =>
         /\ state.gameOver
         /\ Cardinality(Drawn(state)) = 12
         /\ BagCardinality(state.lines) = 12
         /\ state.scores[0] + state.scores[1] = 4
         /\ state.winner = IF state.scores[0] > state.scores[1] THEN 0
                           ELSE IF state.scores[1] > state.scores[0] THEN 1
                           ELSE Null

\* a two-player game played to the end that player 1 won 3-1
C7_Witness ==
  /\ state.gridSize = 3 /\ state.maxPlayers = 2
  /\ nAccepted = 12
  /\ state.scores[0] = 1 /\ state.scores[1] = 3
  /\ state.winner = 1

\* ---- C8 -------------------------------------------------------------------

\* C8: every accepted applyMove adds exactly one drawn edge and removes
\* exactly one available edge; while the game is not over some edge is
\* accepted from the current player; the game is over exactly after
\* totalPossibleLines(gridSize) accepted moves, no more are ever accepted, and
\* in a finished game every move is rejected.
C8_Termination ==
  /\ [](/\ nAccepted <= totalPossibleLines(state.gridSize)
        /\ state.gameOver <=> (nAccepted = totalPossibleLines(state.gridSize))
        /\ Len(getAvailableLines(state)) = totalPossibleLines(state.gridSize) - nAccepted
        /\ ~state.gameOver =>
             \E line \in LineInputs : ~Rejects(state, line, state.currentPlayer)
        /\ state.gameOver =>
             \A line \in LineInputs, playerIndex \in PlayerInputs(state.maxPlayers) :
               Rejects(state, line, playerIndex))
  /\ [][AcceptedStep =>
          /\ Cardinality(Drawn(state')) = Cardinality(Drawn(state)) + 1
          /\ Len(getAvailableLines(state')) = Len(getAvailableLines(state)) - 1]_vars

\* a finished game in which a further move was submitted and rejected
C8_Witness ==
  /\ state.gameOver
  /\ nAccepted = totalPossibleLines(state.gridSize)
  /\ getAvailableLines(state) = <<>>
  /\ call.made /\ ~call.accepted

\* ---- C9 -------------------------------------------------------------------

\* C9: a box that has an owner keeps that owner in every later state.
C9_OwnerKept ==
  [][\A k \in DOMAIN state.boxes :
       k \in DOMAIN state'.boxes /\ state'.boxes[k] = state.boxes[k]]_vars

\* boxes of two different owners, the later one claimed by the last move
C9_Witness ==
  /\ call.accepted
  /\ call.claimed # {}
  /\ \E k \in (DOMAIN state.boxes) \ call.claimed : state.boxes[k] # call.playerIndex

\* ---- C10 ------------------------------------------------------------------

\* C10: currentPlayer is an integer in [0, playerCount).
C10_CurrentPlayerInRange ==
  state.currentPlayer \in 0..(state.maxPlayers - 1)

\* the turn passed from the last player back to player 0
C10_Witness ==
  /\ call.accepted
  /\ call.playerIndex = state.maxPlayers - 1
  /\ call.claimed = {}
  /\ state.currentPlayer = 0

\* ---- C11 ------------------------------------------------------------------

\* the reason tags the claim lists
ReasonTags == {"GeometryInvalid", "OutOfTurn", "EdgeAlreadyDrawn", "GameAlreadyOver"}

\* the value applyMove returned is a GameState
IsGameState(r) == "gridSize" \in DOMAIN r

C12_NormalizeIdempotent ==
  fn.op = "normalizeLine" =>
    /\ normalizeLine(fn.result) = fn.result
    /\ fn.result = normalizeLine(Reverse(fn.line))

\* normalizeLine swapped the endpoints of an edge that lies in one row, on the
\* negative side of the axis
C12_Witness ==
  /\ fn.op = "normalizeLine"
  /\ fn.line[2] = fn.line[4]
  /\ fn.line[1] > fn.line[3]
  /\ fn.line[3] < 0
  /\ fn.result = Reverse(fn.line)

\* ---- C13 ------------------------------------------------------------------

\* the unordered pair of the endpoints of an edge
Endpoints(line) == {<<line[1], line[2]>>, <<line[3], line[4]>>}

\* C13: for any two edges a and b, lineToKey(a) = lineToKey(b) if and only if
\* a and b have the same unordered pair of endpoints.
C13_KeyIffSameSegment ==
  fn.op = "lineToKey" =>
    \A b \in EdgeInputs :
      (fn.result = lineToKey(b)) <=> (Endpoints(fn.line) = Endpoints(b))

\* the key of an edge given larger endpoint first, with a negative and a
\* two-digit coordinate; its reverse is a different tuple with the same key
C13_Witness ==
  /\ fn.op = "lineToKey"
  /\ fn.line[1] = MAX_GRID_SIZE
  /\ fn.line[3] < 0
  /\ fn.line[2] = fn.line[4]
  /\ Reverse(fn.line) # fn.line
  /\ lineToKey(Reverse(fn.line)) = fn.result

\* ---- C14 ------------------------------------------------------------------

\* the array has four elements and all of them are integers
FourIntegers(array) == Len(array) = 4 /\ \A i \in 1..4 : array[i] % 2 = 0

\* the Line an array of four integers holds
LineOf(array) == [i \in 1..4 |-> array[i] \div 2]

\* the endpoints differ by exactly 1 along exactly one axis and by 0 along the other
UnitStep(line) ==
  \/ (Abs(line[3] - line[1]) = 1 /\ line[4] = line[2])
  \/ (line[3] = line[1] /\ Abs(line[4] - line[2]) = 1)

\* C14: isValidLine(edge, gridSize) is true exactly when edge has four integer
\* coordinates, both endpoints lie in [0, gridSize) on both axes, and the
\* endpoints differ by exactly 1 along exactly one axis and 0 along the other;
\* it is false for diagonals, zero-length edges, longer edges and out-of-range
\* endpoints.
C14_ValidExactly ==
  fn.op = "isValidLine" =>
    /\ fn.result <=> /\ FourIntegers(fn.array)
                     /\ ~OutOfGrid(LineOf(fn.array), fn.gridSize)
                     /\ UnitStep(LineOf(fn.array))
    /\ FourIntegers(fn.array) =>
         LET line == LineOf(fn.array)
         IN (Diagonal(line) \/ ZeroLength(line) \/ LongerThanOne(line)
               \/ OutOfGrid(line, fn.gridSize)) => ~fn.result

\* isValidLine returned true for a vertical edge given bottom-up whose far dot
\* lies on the last row of the largest grid
C14_Witness ==
  /\ fn.op = "isValidLine"
  /\ fn.result
  /\ fn.gridSize = MAX_GRID_SIZE
  /\ LineOf(fn.array)[2] = MAX_GRID_SIZE - 1
  /\ LineOf(fn.array)[4] = MAX_GRID_SIZE - 2

\* ---- C15 ------------------------------------------------------------------

\* the physical segments (unordered endpoint pairs) isValidLine accepts on a
\* grid of this size
ValidSegments(gridSize) ==
  {Endpoints(line) : line \in {l \in LineInputsOf(gridSize) : isValidLine(l, gridSize)}}

\* C15: for every grid size g in [3,10], totalPossibleLines(g) = 2*g*(g-1),
\* and this is the number of distinct physical segments for which
\* isValidLine(_, g) is true.
C15_TotalCountsValidSegments ==
  fn.op = "totalPossibleLines" =>
    /\ fn.gridSize \in 3..10
    /\ fn.result = 2 * fn.gridSize * (fn.gridSize - 1)
    /\ fn.result = Cardinality(ValidSegments(fn.gridSize))

\* totalPossibleLines(10) = 180
C15_Witness ==
  /\ fn.op = "totalPossibleLines"
  /\ fn.gridSize = 10
  /\ fn.result = 180

\* ---- C16 ------------------------------------------------------------------

\* the edges of the grid, smaller dot first
HorizontalEdges(gridSize) ==
  {<<x, y, x + 1, y>> : x \in 0..(gridSize - 2), y \in 0..(gridSize - 1)}

VerticalEdges(gridSize) ==
  {<<x, y, x, y + 1>> : x \in 0..(gridSize - 1), y \in 0..(gridSize - 2)}

GridEdges(gridSize) == HorizontalEdges(gridSize) \cup VerticalEdges(gridSize)

\* edge a comes before edge b in the enumeration order: horizontal before
\* vertical, and within a kind by row, then by column, of the smaller dot
EnumBefore(a, b) ==
  LET horizontalA == a[2] = a[4]
      horizontalB == b[2] = b[4]
      rowA == Min(a[2], a[4])
      rowB == Min(b[2], b[4])
      colA == Min(a[1], a[3])
      colB == Min(b[1], b[3])
  IN \/ horizontalA /\ ~horizontalB
     \/ /\ horizontalA = horizontalB
        /\ (rowA < rowB \/ (rowA = rowB /\ colA < colB))

\* the geometrically valid edges that are not drawn in s
Undrawn(s) == {e \in GridEdges(s.gridSize) : ~AlreadyDrawn(Drawn(s), e)}

\* C16: getAvailableLines(state) contains each geometrically valid edge for
\* state.gridSize that is not drawn exactly once and nothing else, in the
\* order: undrawn horizontal edges row-major, then undrawn vertical edges
\* row-major.
C16_AvailableLines ==
  LET available == getAvailableLines(state)
  IN /\ {Endpoints(available[i]) : i \in 1..Len(available)}
          = {Endpoints(e) : e \in Undrawn(state)}
     /\ Len(available) = Cardinality(Undrawn(state))
     /\ \A i, j \in 1..Len(available) : i < j => EnumBefore(available[i], available[j])

\* a board in mid-game whose first edge of both kinds is drawn, so that the
\* list starts later in the first row and goes on into the vertical edges
C16_Witness ==
  /\ call.accepted
  /\ nAccepted = 5
  /\ <<0, 0, 1, 0>> \in Drawn(state)
  /\ <<0, 0, 0, 1>> \in Drawn(state)
  /\ LET available == getAvailableLines(state)
     IN /\ Len(available) = 7
        /\ available[1] = <<1, 0, 2, 0>>
        /\ available[7] = <<2, 1, 2, 2>>

\* ---- C17 ------------------------------------------------------------------

\* the edge lies on the boundary of the grid
OnBoundary(line, gridSize) ==
  \/ line[2] = line[4] /\ line[2] \in {0, gridSize - 1}
  \/ line[1] = line[3] /\ line[1] \in {0, gridSize - 1}

\* C17: for every valid edge e and drawn set S containing e,
\* findCompletedBoxes(e, gridSize, S) returns exactly the boxes of the grid
\* that have e as one of their four sides and have all four sides in S; at
\* most two boxes, and at most one when e lies on the grid boundary.
C17_CompletedBoxes ==
  fn.op = "findCompletedBoxes" =>
    LET expected == {b \in Boxes(GridSize) :
                       /\ \E side \in Sides(b) : Endpoints(side) = Endpoints(fn.line)
                       /\ Sides(b) \subseteq fn.drawn}
    IN /\ isValidLine(fn.line, GridSize) /\ (fn.line \in fn.drawn \/ Reverse(fn.line) \in fn.drawn)
       /\ {fn.result[i] : i \in 1..Len(fn.result)} = BoxKeys(expected)
       /\ Len(fn.result) = Cardinality(expected)
       /\ Len(fn.result) <= 2
       /\ OnBoundary(fn.line, GridSize) => Len(fn.result) <= 1

\* a boundary edge, given larger dot first, of a complete box of the grid,
\* while the square on its other side, outside the grid, has all its sides in
\* the drawn set too
C17_Witness ==
  /\ fn.op = "findCompletedBoxes"
  /\ Len(fn.result) = 1
  /\ fn.line = <<0, 2, 0, 1>>
  /\ Sides(<<0 - 1, 1>>) \subseteq fn.drawn

\* ---- C18 ------------------------------------------------------------------

Strategies == {"easyAI", "mediumAI", "hardAI"}

\* C18: each of the three strategies returns none exactly when
\* getAvailableLines(state) is empty, and otherwise returns a member of
\* getAvailableLines(state), which applyMove accepts from the current player.
C18_StrategyReturnsAvailable ==
  fn.op \in Strategies =>
    LET available == getAvailableLines(state)
    IN /\ (fn.result = NoLine) <=> (available = <<>>)
       /\ fn.result # NoLine =>
            /\ \E i \in 1..Len(available) : available[i] = fn.result
            /\ ~Rejects(state, fn.result, state.currentPlayer)

\* hardAI returned a line on a board with several available lines
C18_Witness ==
  /\ fn.op = "hardAI"
  /\ fn.result # NoLine
  /\ Len(getAvailableLines(state)) >= 3
  /\ ~Rejects(state, fn.result, state.currentPlayer)

\* ---- C19 ------------------------------------------------------------------

\* the number of drawn sides of box b in s
DrawnSides(s, b) == Cardinality(Sides(b) \cap Drawn(s))

\* a safe move: after it no unowned box has exactly 3 drawn edges
SafeMove(s, line) ==
  LET after == applyMove(s, line, s.currentPlayer)
  IN /\ after # NullState
     /\ \A b \in Boxes(s.gridSize) : ~(Owner(after, b) = Null /\ DrawnSides(after, b) = 3)

\* C19: in every reachable state where at least one safe move exists,
\* mediumAI never returns an unsafe move, also when it takes its priority-1
\* box-completing branch.
C19_GreedySafety ==
  (fn.op = "mediumAI" /\ \E line \in Undrawn(state) : SafeMove(state, line))
    => SafeMove(state, fn.result)

\* mediumAI returned a line that completes a box (priority 1) on a board that
\* has unsafe moves beside the safe one
C19_Witness ==
  /\ fn.op = "mediumAI"
  /\ fn.result # NoLine
  /\ NewlyCompleted(state, applyMove(state, fn.result, state.currentPlayer)) # {}
  /\ SafeMove(state, fn.result)
  /\ \E line \in Undrawn(state) : ~SafeMove(state, line)

\* ---- C20 ------------------------------------------------------------------

\* the undrawn edges that complete at least one box when drawn
Completing(s) ==
  {e \in Undrawn(s) : NewlyCompleted(s, applyMove(s, e, s.currentPlayer)) # {}}

\* C20: if at least one available edge would complete a box when drawn,
\* mediumAI returns the first such edge in getAvailableLines enumeration
\* order, regardless of how many boxes other candidates would complete.
C20_FirstCompleting ==
  (fn.op = "mediumAI" /\ Completing(state) # {}) =>
    /\ fn.result \in Completing(state)
    /\ \A e \in Completing(state) : e # fn.result => EnumBefore(fn.result, e)

\* mediumAI returned an edge that completes one box while a later edge would
\* complete two
C20_Witness ==
  /\ fn.op = "mediumAI"
  /\ fn.result # NoLine
  /\ Cardinality(NewlyCompleted(state, applyMove(state, fn.result, state.currentPlayer))) = 1
  /\ \E e \in Completing(state) :
       /\ EnumBefore(fn.result, e)
       /\ Cardinality(NewlyCompleted(state, applyMove(state, e, state.currentPlayer))) = 2

\* ---- C21 -------------------------------------------------------------------

\* the record of a strategy called twice on the state
CalledTwice(op) == fn.op = op /\ "again" \in DOMAIN fn

RootScores == {r \in fn.seen : r.kind = "root"}

\* the search value of the i-th available line: the value of minimax for the
\* state the line leads to, under the full window
SearchValue(s, available, i, aiPlayerIndex) ==
  minimax(applyMove(s, normalizeLine(available[i]), s.currentPlayer),
          MaxDepth(available) - 1, 0 - Infinity, Infinity, FALSE, aiPlayerIndex)

\* the positions of the highest score
Highest(roots) == {r.index : r \in {q \in roots : \A o \in roots : o.score <= q.score}}

\* C22: hardAI scores every available line with its search value and returns
\* the line whose score is highest; of several lines with the highest score
\* it returns the first in the order of getAvailableLines.
C22_FirstHighest ==
  fn.op = "hardAI" /\ fn.result # NoLine =>
    LET available == getAvailableLines(state)
    IN /\ {r.index : r \in RootScores} = 1..Len(available)
       /\ \A r \in RootScores :
            r.score = SearchValue(state, available, r.index, AI_PLAYER_INDEX)
       /\ \E k \in Highest(RootScores) :
            /\ fn.result = available[k]
            /\ \A j \in Highest(RootScores) : k <= j

\* several lines have the highest score, a line before them has a lower one,
\* and hardAI has returned the first of the highest
C22_Witness ==
  /\ fn.op = "hardAI"
  /\ Cardinality(Highest(RootScores)) > 1
  /\ 1 \notin Highest(RootScores)
  /\ \E k \in Highest(RootScores) :
       /\ fn.result = getAvailableLines(state)[k]
       /\ \A j \in Highest(RootScores) : k <= j

\* ---- C23 -------------------------------------------------------------------

\* the calls of minimax that ran a loop in the last call of hardAI
Nodes == {n \in fn.seen : n.kind = "node"}

\* the calls of minimax that returned the evaluation in the last call of hardAI
Leaves == {n \in fn.seen : n.kind = "leaf"}

\* how many moves below the state hardAI was given a call of minimax was made
MovesBelowRoot(n) == n.drawn - BagCardinality(state.lines)

\* C23: called with at most 12 undrawn edges, hardAI searches to the end:
\* every evaluation it uses is that of a state in which the game is over.
\* Called with more than 12, it makes no call of minimax for a state more than
\* 6 moves below the one it was given.
C23_DepthBound ==
  fn.op = "hardAI" =>
    IF Cardinality(Undrawn(state)) <= FULL_SEARCH_LINES
      THEN \A n \in Leaves : n.gameOver
      ELSE \A n \in Leaves \cup Nodes : MovesBelowRoot(n) <= LIMITED_DEPTH

\* hardAI was applied to a board with more than 12 undrawn edges and used
\* the evaluation of an unfinished game 6 moves below it
C23_Witness ==
  /\ fn.op = "hardAI"
  /\ Cardinality(Undrawn(state)) > FULL_SEARCH_LINES
  /\ \E n \in Leaves : MovesBelowRoot(n) = LIMITED_DEPTH /\ ~n.gameOver
  /\ \E n \in Nodes : MovesBelowRoot(n) = LIMITED_DEPTH - 1

\* ---- C24 -------------------------------------------------------------------

\* C24: every call of minimax that runs a loop, the calls hardAI makes with
\* isMaximizing = false for the children of the root among them, runs the
\* maximizing loop exactly when the current player of its state is
\* aiPlayerIndex.
C24_MaximizingIffAITurn ==
  fn.op = "hardAI" => \A n \in Nodes : n.maximizing <=> n.aiToMove

\* the AI is to move, a child of the root in which it keeps the turn was
\* searched as a maximizing node, and a minimizing node was searched as well
C24_Witness ==
  /\ fn.op = "hardAI"
  /\ state.currentPlayer = AI_PLAYER_INDEX
  /\ \E n \in Nodes : /\ n.drawn = BagCardinality(state.lines) + 1
                       /\ n.maximizing
                       /\ n.aiToMove
  /\ \E n \in Nodes : ~n.maximizing /\ ~n.aiToMove

\* ---- C26 -------------------------------------------------------------------

\* the last move made was made for the AI
AIPlayed == call.accepted /\ call.playerIndex = AI_PLAYER_INDEX

\* C26: in the game against the AI, whenever the game is not over and the
\* current player is the AI, the AI eventually plays a move.
C26_AIEventuallyPlays ==
  (~state.gameOver /\ state.currentPlayer = AI_PLAYER_INDEX) ~> AIPlayed

\* ---- C27 -------------------------------------------------------------------

\* how many calls of the bag were admitted for the socket and event of call c
\* in the window of the event that ends with c.at, c itself included
AdmittedInWindow(admitted, c) ==
  LET same == {a \in BagToSet(admitted) :
                 /\ a.socketId = c.socketId
                 /\ a.event = c.event
                 /\ a.at <= c.at
                 /\ c.at - a.at < WindowMs(c.event)}
  IN BagCardinality([a \in same |-> admitted[a]])

\* C27: for each socket, no window of 1000 ms holds more than 5 admitted
\* makeMove events and no window of 60000 ms more than 2 admitted createRoom
\* events; an event is rejected only when the window that ends with it is
\* full of admitted ones (rejected events take no room in it); events of any
\* other type are always admitted.
C27_SlidingWindow ==
  fn.op = "checkRateLimit" =>
    /\ \A a \in BagToSet(fn.admitted) :
         a.event \in LimitedEvents => AdmittedInWindow(fn.admitted, a) <= MaxEvents(a.event)
    /\ "last" \in DOMAIN fn =>
         /\ fn.last.event \notin LimitedEvents => fn.allowed
         /\ fn.last.event \in LimitedEvents /\ ~fn.allowed =>
              AdmittedInWindow(fn.admitted, fn.last) = MaxEvents(fn.last.event)

\* a makeMove was rejected at the end of the window that started at 0, the
\* five admitted before it being younger than the window and one admitted at
\* 0 too old to count
C27_Witness ==
  /\ fn.op = "checkRateLimit"
  /\ "last" \in DOMAIN fn
  /\ fn.last.event = "makeMove"
  /\ ~fn.allowed
  /\ fn.last.at = MOVE_WINDOW_MS
  /\ AdmittedInWindow(fn.admitted, fn.last) = RATE_LIMIT_MOVES_PER_SECOND
  /\ \E a \in BagToSet(fn.admitted) :
       a.socketId = fn.last.socketId /\ a.event = "makeMove" /\ a.at = 0

\* ---- C25 ---------------------------------------------------------------------

\* the room's game is being played
InProgress(r) == r.exists /\ r.state.started /\ ~r.state.gameOver

\* the indices (from 0) of the slots of the room that hold socketId
SlotsOf(r, socketId) == {i \in 0..(Len(r.players) - 1) : r.players[i + 1].id = socketId}

\* C25: a makeMove event changes the room only if the room's game is started
\* and not over, the sender is a player of the room and that player's index is
\* state.currentPlayer, and then it changes nothing but the game state; in
\* every other case the room is as it was and the handler emits one
\* invalidMove or error, to the sender only.
C25_TurnValidation ==
  [][MakeMove =>
       IF room' # room
         THEN /\ InProgress(room)
              /\ room.state.currentPlayer \in SlotsOf(room, emitted'.socket)
              /\ room'.exists
              /\ room'.state # room.state
              /\ room' = [room EXCEPT !.state = room'.state]
         ELSE IsRejection(emitted')]_vars

\* a player of a game under way, with lines drawn, sent a move out of turn and
\* was told so
C25_Witness ==
  /\ InProgress(room)
  /\ BagCardinality(room.state.lines) > 0
  /\ emitted.handler = "makeMove"
  /\ IsRejection(emitted)
  /\ emitted.out[1].tag = "NOT_YOUR_TURN"
  /\ SlotsOf(room, emitted.socket) # {}

\* ---- C28 ---------------------------------------------------------------------

\* the slots whose player came back on another connection than the one that
\* gave the name
RestoredSlots(r) ==
  {i \in 0..(Len(r.players) - 1) :
     /\ r.players[i + 1].id \in SocketIds
     /\ r.players[i + 1].name # NameOf(r.players[i + 1].id)}

\* a makeMove payload with the first available line of the room's game
FirstAvailable(r) ==
  [object |-> TRUE, roomId |-> RoomId, line |-> getAvailableLines(r.state)[1]]

\* the restored player whose turn it is has its move taken: the room's state
\* becomes what applyMove returns for its index
RestoredMayMove ==
  InProgress(room) =>
    \A i \in RestoredSlots(room) :
      LET socketId == room.players[i + 1].id
      IN (i = room.state.currentPlayer /\ findIndex(room.players, socketId) = i) =>
           /\ applyMove(room.state, FirstAvailable(room).line, i) # NullState
           /\ makeMove(room, socketId, FirstAvailable(room), TRUE).room.state
                = applyMove(room.state, FirstAvailable(room).line, i)

\* the disconnect of a player of a game under way keeps the game state and
\* records the player's index and info
DisconnectKeeps ==
  (Disconnect /\ InProgress(room) /\ SlotsOf(room, emitted'.socket) # {}) =>
    LET socketId == emitted'.socket
        i == findIndex(room.players, socketId)
    IN /\ room'.exists
       /\ room'.state = room.state
       /\ socketId \in DOMAIN room'.disconnectedPlayers
       /\ room'.disconnectedPlayers[socketId].playerIndex = i
       /\ room'.disconnectedPlayers[socketId].playerInfo = room.players[i + 1]

\* a rejoinRoom that finds the entry of playerId puts the player back at the
\* recorded index under the sender's socket id and the name it had, removes
\* the entry and keeps the game state and the other slots
RejoinRestores ==
  (RejoinRoom /\ room' # room) =>
    \E playerId \in DOMAIN room.disconnectedPlayers :
      LET entry == room.disconnectedPlayers[playerId]
      IN /\ room'.state = room.state
         /\ DOMAIN room'.disconnectedPlayers = DOMAIN room.disconnectedPlayers \ {playerId}
         /\ Len(room'.players) > entry.playerIndex
         /\ room'.players[entry.playerIndex + 1] =
              [id |-> emitted'.socket, name |-> entry.playerInfo.name]
         /\ \A k \in 1..Len(room.players) :
              k # entry.playerIndex + 1 => room'.players[k] = room.players[k]

C30_SlotsAndIds ==
  room.exists =>
    /\ Len(room.players) <= room.state.maxPlayers
    /\ \A i, j \in 1..Len(room.players) :
         (i # j /\ room.players[i] # Hole) => room.players[i].id # room.players[j].id

\* ---- C29 ---------------------------------------------------------------------

\* the time since playerId disconnected is more than the reconnection timeout
Late(playerId) ==
  now - room.disconnectedPlayers[playerId].disconnectedAt
    > RECONNECT_TIMEOUT_SECONDS * MS_PER_SECOND

\* C29: a rejoinRoom attempt made more than RECONNECT_TIMEOUT_SECONDS (30 s)
\* after the player's disconnect is rejected: no rejoinRoom takes the place of
\* a player who has been away for longer.
C29_LateRejoinRejected ==
  [][room.exists =>
       \A playerId \in DOMAIN room.disconnectedPlayers :
         (RejoinRoom /\ room'.exists /\ playerId \notin DOMAIN room'.disconnectedPlayers)
           => ~Late(playerId)]_vars

\* ---- C31 ---------------------------------------------------------------------

\* the ids of the slots of the room
PlayerIds(r) == {r.players[i].id : i \in 1..Len(r.players)}

\* a startGame event starts the game only for the creator of a room of two
\* players or more, and then changes nothing else; any other startGame leaves
\* the room as it was and answers the sender with an error
StartGameGuarded ==
  StartGame =>
    IF room' # room \/ ~IsRejection(emitted')
      THEN /\ room.exists
           /\ room.creator = emitted'.socket
           /\ Len(room.players) >= MIN_PLAYERS
           /\ room' = [room EXCEPT !.state.started = TRUE]
      ELSE /\ room' = room
           /\ emitted'.out[1].event = "error"

\* before the game starts the creator is a player of the room
CreatorIsPlayer ==
  (room.exists /\ ~room.state.started) => room.creator \in PlayerIds(room)

\* C31: a startGame event sets started = true only when its sender is the
\* socket recorded as the room's creator and the room has at least 2 players,
\* otherwise started is unchanged and an error is emitted; while the game has
\* not started, room.creator is the id of a player currently in the room.
C31_StartGame ==
  /\ []CreatorIsPlayer
  /\ [][StartGameGuarded]_vars

\* the game was started by a creator who is not the first connection, a
\* connection having been closed before
C31_Witness ==
  /\ emitted.handler = "startGame"
  /\ ~IsRejection(emitted)
  /\ room.state.started
  /\ room.creator = emitted.socket
  /\ room.creator # SocketId(1)
  /\ sockets[SocketId(1)] = "closed"

\* ---- C32 ---------------------------------------------------------------------

\* C32: the periodic room cleanup removes a room whose game is over only when
\* more than 5 minutes have passed since the game ended (a room older than
\* the 1-hour TTL is removed in any case).
C32_FinishedRoomKeptFiveMinutes ==
  [][(/\ CleanupExpiredRooms
      /\ room.state.gameOver
      /\ now' - room.createdAt <= ROOM_TTL_MS
      /\ ~room'.exists)
       => now' - fn.endedAt > FINISHED_ROOM_AGE_MS]_vars

\* ---- C33 ---------------------------------------------------------------------

SetMax(values) == CHOOSE x \in values : \A y \in values : y <= x

SetMin(values) == CHOOSE x \in values : \A y \in values : x <= y

\* the states applyMove returns for the lines of `available`
PlainChildren(s, available) ==
  {applyMove(s, normalizeLine(available[i]), s.currentPlayer) : i \in 1..Len(available)}
    \ {NullState}

RECURSIVE PlainMinimax(_, _, _)

\* the value of a node with children: the highest of theirs where the AI is
\* to move, the lowest elsewhere
PlainNode(s, depth, aiPlayerIndex, children) ==
  IF children = {} THEN Evaluate(s, aiPlayerIndex)
  ELSE IF s.currentPlayer = aiPlayerIndex
    THEN SetMax({PlainMinimax(c, depth - 1, aiPlayerIndex) : c \in children})
    ELSE SetMin({PlainMinimax(c, depth - 1, aiPlayerIndex) : c \in children})

\* depth-bounded minimax over applyMove, every child searched
PlainMinimax(s, depth, aiPlayerIndex) ==
  IF depth = 0 \/ s.gameOver THEN Evaluate(s, aiPlayerIndex)
  ELSE PlainNode(s, depth, aiPlayerIndex, PlainChildren(s, getAvailableLines(s)))

\* the first line of `available` whose child has the highest value
PlainFirstBest(available, values) ==
  available[CHOOSE i \in 1..Len(available) :
              /\ \A j \in 1..Len(available) : values[j] <= values[i]
              /\ \A j \in 1..(i - 1) : values[j] < values[i]]

\* the move of the un-pruned search from s, with hardAI's depth bound
PlainBest(s, aiPlayerIndex, available) ==
  PlainFirstBest(available,
    [i \in 1..Len(available) |->
       PlainMinimax(applyMove(s, normalizeLine(available[i]), s.currentPlayer),
                    MaxDepth(available) - 1, aiPlayerIndex)])

C34_CurrentPlayerHasSlot ==
  (room.exists /\ room.state.started /\ ~room.state.gameOver) =>
    room.state.currentPlayer < Len(room.players)

\* ---- C35 ---------------------------------------------------------------------

\* the boxes that have an owner
Owned(s) == {b \in Boxes(s.gridSize) : Owner(s, b) # Null}

\* C35: in every state reached from createInitialState by accepted applyMove
\* calls, a box has an owner if and only if all four of its edges are drawn;
\* at gameOver every one of the (gridSize - 1)^2 boxes is owned and the scores
\* sum to (gridSize - 1)^2.
C35_OwnedIffClosed ==
  /\ \A b \in Boxes(state.gridSize) : b \in Owned(state) <=> Sides(b) \subseteq Drawn(state)
  /\ state.gameOver =>
       /\ Owned(state) = Boxes(state.gridSize)
       /\ Cardinality(Owned(state)) = (state.gridSize - 1) * (state.gridSize - 1)
       /\ SumScores(state) = (state.gridSize - 1) * (state.gridSize - 1)

\* a game is over whose last accepted move gave two boxes their owner, a box
\* having been closed before
C35_Witness ==
  /\ state.gameOver
  /\ call.accepted
  /\ Cardinality(call.claimed) = 2
  /\ \E playerIndex \in 0..(state.maxPlayers - 1) :
       state.scores[playerIndex] > 0 /\ playerIndex # call.playerIndex

\* ---- C36 ---------------------------------------------------------------------

\* the makeMove payloads for which the handler, run for the sender of this
\* step, leaves the room and emits what this step left and emitted
PayloadsOfStep ==
  {data \in MoveInputs :
     /\ data.object
     /\ makeMove(room, emitted'.socket, data, TRUE).room = room'
     /\ makeMove(room, emitted'.socket, data, TRUE).out = emitted'.out}

\* C36: whenever the makeMove handler emits invalidMove with reason
\* LINE_TAKEN, the edge submitted is already in the drawn set of the room: no
\* other cause for which applyMove returns null reaches that branch.
C36_LineTakenMeansDrawn ==
  [][(IsRejection(emitted') /\ emitted'.out[1].tag = "LINE_TAKEN" /\ MakeMove) =>
       /\ PayloadsOfStep # {}
       /\ \A data \in PayloadsOfStep :
            /\ room.exists
            /\ data.roomId = RoomId
            /\ AlreadyDrawn(Drawn(room.state), data.line)]_vars

\* the player whose turn it is sent a line and was answered LINE_TAKEN
C36_Witness ==
  /\ emitted.handler = "makeMove"
  /\ IsRejection(emitted)
  /\ emitted.out[1].tag = "LINE_TAKEN"
  /\ InProgress(room)
  /\ room.state.currentPlayer \in SlotsOf(room, emitted.socket)

\* ---- C37 ---------------------------------------------------------------------

\* the slot the disconnect of socketId left behind
MarkedSlot(socketId) == "disconnected-" \o socketId

\* the sockets whose slot is still marked while their entry is gone
Forfeited(r) ==
  {socketId \in SocketIds :
     /\ socketId \notin DOMAIN r.disconnectedPlayers
     /\ \E i \in 1..Len(r.players) : r.players[i].id = MarkedSlot(socketId)}

\* a run of the checker in which a window expires deletes the entries of the
\* players away for more than the timeout, announces playerForfeited and
\* leaves the rest of the room as it was; the turn still comes to the index
\* of the player who forfeited
ExpiryFrame ==
  (CheckReconnectionTimeouts /\ room.exists) =>
    LET late == {p \in DOMAIN room.disconnectedPlayers : Late(p)}
    IN /\ room'.exists
       /\ room'.state = room.state
       /\ room'.players = room.players
       /\ room'.creator = room.creator
       /\ DOMAIN room'.disconnectedPlayers = DOMAIN room.disconnectedPlayers \ late
       /\ \A p \in DOMAIN room'.disconnectedPlayers :
            room'.disconnectedPlayers[p] = room.disconnectedPlayers[p]
       /\ late # {} <=> emitted'.out = <<Out("room", "playerForfeited", "")>>
       /\ \A p \in late :
            LET i == room.disconnectedPlayers[p].playerIndex
            IN \E playerIndex \in 0..(room'.state.maxPlayers - 1) :
                 NextPlayer(FALSE, playerIndex, room'.state.maxPlayers) = i

\* C37: the expiry of a reconnection window (checkReconnectionTimeouts, then
\* the playerForfeited broadcast) changes nothing in the room but deletes the
\* disconnectedPlayers entry: the game state and the slot of the player are
\* as they were, and the index that forfeited keeps its turn in the rotation.
C37_ExpiryFrame == [][ExpiryFrame]_vars

\* the checker has just announced a forfeit in a game under way that waits
\* for the move of a player who forfeited
C37_Witness ==
  /\ emitted.handler = "interval"
  /\ emitted.out # <<>>
  /\ InProgress(room)
  /\ \E socketId \in Forfeited(room) :
       room.players[room.state.currentPlayer + 1].id = MarkedSlot(socketId)

\* ---- C38 ---------------------------------------------------------------------

\* the handler broadcast gameOver
EmitsGameOver(e) == \E i \in 1..Len(e.out) : e.out[i].event = "gameOver"

\* the room's game is over
Finished(r) == r.exists /\ r.state.gameOver

\* the rate limiter admits the makeMove event of the sender of this step
AdmittedStep == checkRateLimit(buckets, emitted'.socket, "makeMove", now).allowed

\* the makeMove payloads naming the room for which the handler, run for the
\* sender of this step, leaves the room and emits what this step left and
\* emitted
PayloadsForRoom ==
  {data \in MoveInputs :
     /\ data.object
     /\ data.roomId = RoomId
     /\ makeMove(room, emitted'.socket, data, AdmittedStep).room = room'
     /\ makeMove(room, emitted'.socket, data, AdmittedStep).out = emitted'.out}

\* C38 as stated: every makeMove for a room whose game is over is rejected
\* with reason GAME_OVER, the state unchanged.
C38_LaterMovesGameOver ==
  [][(Finished(room) /\ emitted'.handler = "makeMove" /\ MakeMove /\ PayloadsForRoom # {}) =>
       /\ room' = room
       /\ emitted'.out = <<Out("sender", "invalidMove", "GAME_OVER")>>]_vars

\* gameOver is emitted by the makeMove handler in the step that ends the
\* game, the one that draws the last edge, and in no other
GameOverOnLastEdge ==
  (emitted'.handler = "makeMove" /\ MakeMove) =>
    /\ EmitsGameOver(emitted') <=> (room.exists /\ ~room.state.gameOver /\ room'.state.gameOver)
    /\ EmitsGameOver(emitted') =>
         /\ BagCardinality(room'.state.lines) = BagCardinality(room.state.lines) + 1
         /\ BagCardinality(room'.state.lines) = totalPossibleLines(room.state.gridSize)

\* a finished game stays as it is while its room exists
FinishedStays == (Finished(room) /\ room'.exists) => room'.state = room.state

\* a makeMove for a room whose game is over is rejected, the room unchanged:
\* with RATE_LIMITED when the rate limiter refuses it, with INVALID_LINE when
\* its line is not valid for the grid, with GAME_OVER otherwise
LaterMovesRejected ==
  (Finished(room) /\ emitted'.handler = "makeMove" /\ MakeMove) =>
    /\ room' = room
    /\ IsRejection(emitted')
    /\ \A data \in PayloadsForRoom :
         emitted'.out[1].event = "invalidMove"
           /\ emitted'.out[1].tag =
                IF ~AdmittedStep THEN "RATE_LIMITED"
                ELSE IF ~isValidLine(data.line, room.state.gridSize) THEN "INVALID_LINE"
                ELSE "GAME_OVER"

\* C38, amended: for each room the server emits gameOver exactly once, in the
\* accepted makeMove that draws the final edge; every later makeMove for that
\* room is rejected without changing the state, with reason GAME_OVER when
\* the rate limiter admits it and its line is valid, with RATE_LIMITED or
\* INVALID_LINE otherwise.
C38_GameOverOnce ==
  /\ [](("out" \in DOMAIN emitted /\ EmitsGameOver(emitted)) =>
          emitted.handler = "makeMove" /\ Finished(room))
  /\ [][GameOverOnLastEdge /\ FinishedStays /\ LaterMovesRejected]_vars

\* a player of a finished game sent a line that is no line of the grid and
\* was answered INVALID_LINE
C38_Witness ==
  /\ Finished(room)
  /\ emitted.handler = "makeMove"
  /\ IsRejection(emitted)
  /\ emitted.out[1].tag = "INVALID_LINE"
  /\ SlotsOf(room, emitted.socket) # {}

\* ---- C39 ---------------------------------------------------------------------

\* C39: after the disconnect event of a socket has been handled, its socket
\* id is the id of no player of any room, also when the socket had created
\* or joined more than one room.
C39_ClosedSocketInNoRoom ==
  \A socketId \in SocketIds :
    sockets[socketId] = "closed" =>
      \A i \in 1..Len(room) : socketId \notin PlayerIds(room[i])

\* ---- C40 ---------------------------------------------------------------------
\* C40: no accepted local move is lost.  Every edge for which makeLocalMove
\* has returned true is in the drawn set of the hook's state from then on,
\* also when several callbacks of one render (handleLineClick, aiMoveHandler)
\* run before the next render: at every render, the edges accepted since
\* the render before are all drawn in the state the hook returns.
C40_AcceptedMoveKept ==
  [][Render => fn.accepted \subseteq Drawn(state')]_vars

====
